---- MODULE Spec2Model ----
(***************************************************************************)
(* Release tooling of rust-marker/marker: the version propagation scripts  *)
(* (set-version.sh, replace-in-regions.sh), their snapshot test (test.sh), *)
(* and the small release helpers (get-next-dev-version.sh,                 *)
(* get-git-tags.sh, get-version-from-changelog.sh).                        *)
(*                                                                         *)
(* Text is a sequence of one-character strings; a file is a sequence of    *)
(* lines; the sed and grep patterns of the scripts are matched character   *)
(* by character with the engines' leftmost, greedy semantics.              *)
(***************************************************************************)
EXTENDS Integers, Sequences, FiniteSets, TLC

VARIABLES
    \* ---- the small release helpers (one script run) ----
    tool,        \* which script runs
    version,     \* "$1" of get-next-dev-version.sh / get-git-tags.sh
    semver,      \* the version as the caller means it: [major, minor, patch, suffix]
    CHANGELOG,   \* lines of CHANGELOG.md
    entries,     \* what each line of CHANGELOG.md is, as its author means it
    stdout,      \* what the script printed
    exit_code,   \* its exit status (-1 while running)
    tool_pc,
    \* ---- replace-in-regions.sh (replace_semver_in_regions) ----
    tree,        \* the repository: path -> lines
    tree0,       \* the repository before the first run
    region,      \* "$1" of replace_semver_in_regions
    x_y_z,       \* "$2" of replace_semver_in_regions
    date,        \* "$2" of replace_date_in_regions
    runs,        \* completed calls of the function
    lib_exit,    \* exit status of the last call (-1 before the first)
    lib_err,     \* what the last call reported through die
    listed,      \* the last call enumerated the files (git ls-files)
    \* ---- set-version.sh ----
    new_version, \* "$1"
    args,        \* the remaining command line
    commit,      \* the --commit message
    wt,          \* the working tree: path -> lines
    wt0,         \* the working tree before the run
    files,       \* the array filled by find
    idx,         \* position of the file loop
    calls,       \* the replace calls made so far: <<file, region class>>
    lock_updated,\* cargo update ran
    commits,     \* commits created by the run
    sv_exit,     \* exit status (-1 while running)
    sv_err,      \* what the script reported through die
    sv_pc,
    \* ---- test.sh, the snapshot test of set-version.sh ----
    repo,        \* the repository the test is run in: path -> lines
    repo0,       \* the repository before the first run
    repo_index,  \* the git index of the repository
    repo_version,\* the version the repository holds in its regions
    UPDATE_SNAP, \* the environment variable is set
    temp_dir,    \* the name mktemp gave ("" before)
    temp_exists, \* the temporary directory exists
    temp_wt,     \* the files of the temporary directory
    temp_index,  \* the git index of the temporary directory
    trap_set,    \* `cleanup` is the trap of SIGINT SIGTERM ERR EXIT
    cleanup_defined, \* the function cleanup is defined
    cleanups,    \* runs of the function cleanup
    signals,     \* signals the run received
    failed,      \* a command of the run failed for a reason outside the script
    actual,      \* the normalized diff
    test_err,    \* what the test reported through die
    test_exit,   \* exit status (-1 while running)
    test_pc,
    test_runs,   \* runs of the test started so far
    snap1,       \* the snapshot file as the first run left it
    first_exit,  \* exit status of the first run
    \* ---- with_backoff (lib.sh) and the command it retries ----
    ATTEMPTS,    \* the environment variable: [set, value]
    TIMEOUT,     \* the environment variable: [set, value]
    command,     \* "$@" of with_backoff
    max_attempts,\* the locals of with_backoff
    attempt,
    timeout,
    wb_exit_code,
    tries,       \* what each attempt of the command did
    slept,       \* the arguments of the sleep calls
    cwd,         \* the files of the directory the command runs in
    wb_return,   \* what with_backoff returned (-1 before); -2: the command ended the script
    wb_pc,
    \* ---- install.sh ----
    ins_served,  \* what the release page holds: bin -> [archive, sha256]
    ins_temp,    \* the files of $temp_dir: name -> content
    ins_temp_exists, \* $temp_dir exists
    ins_trap,    \* `cleanup` is the trap of SIGINT SIGTERM ERR EXIT
    ins_cleanup_defined, \* the function cleanup is defined
    ins_rm,      \* runs of rm -rf "$temp_dir"
    ins_checked, \* the binaries whose sha256 check ran
    ins_dest,    \* what tar extracted: pairs [bin, content]
    ins_exit,    \* exit status (-1 while running)
    ins_pc,
    \* ---- release.yml, the release workflow ----
    rel_changelog,       \* CHANGELOG.md of the checked out branch
    rel_semver,          \* the version of its first version heading, as its author means it
    rel_template,        \* how the files of the branch write their versions
    env_release_version, \* env.release_version
    env_next_dev_version,\* env.next_dev_version
    env_tags,            \* env.tags
    rel_tree,            \* the working tree of the runner
    rel_branch,          \* the commits of the branch in the clone of the runner
    rel_tags,            \* the tags of the clone: [name, commit]
    origin_branch,       \* the commits of the branch on the remote
    origin_tags,         \* the tags on the remote
    others,              \* the commits other actors pushed to the branch
    rel_status,          \* "running", "success" or "failure"
    rel_pc,
    \* ---- two runs of set-version.sh in one working tree ----
    race_tree,           \* the working tree both runs rewrite
    race_runs            \* of each run: [new_version, files, idx, class, temp, pc]

toolVars == <<tool, version, semver, CHANGELOG, entries, stdout, exit_code, tool_pc>>
libVars == <<tree, tree0, region, x_y_z, date, runs, lib_exit, lib_err, listed>>
svVars == <<new_version, args, commit, wt, wt0, files, idx, calls, lock_updated, commits, sv_exit, sv_err, sv_pc>>
testVars == <<repo, repo0, repo_index, repo_version, UPDATE_SNAP, temp_dir, temp_exists,
              temp_wt, temp_index, trap_set, cleanup_defined, cleanups, signals, failed,
              actual, test_err, test_exit, test_pc, test_runs, snap1, first_exit>>
backoffVars == <<ATTEMPTS, TIMEOUT, command, max_attempts, attempt, timeout, wb_exit_code,
                 tries, slept, cwd, wb_return, wb_pc>>
\* the parts added to the model after the release scripts
installVars == <<ins_served, ins_temp, ins_temp_exists, ins_trap, ins_cleanup_defined, ins_rm,
                 ins_checked, ins_dest, ins_exit, ins_pc>>
releaseVars == <<rel_changelog, rel_semver, rel_template, env_release_version,
                 env_next_dev_version, env_tags, rel_tree, rel_branch, rel_tags,
                 origin_branch, origin_tags, others, rel_status, rel_pc>>
raceVars == <<race_tree, race_runs>>
restVars == <<backoffVars, installVars, releaseVars, raceVars>>
vars == <<toolVars, libVars, svVars, testVars, restVars>>

----------------------------------------------------------------------------
(* Bounds *)

MaxNum == 11        \* version numbers are drawn from 0..MaxNum
MaxEntries == 3     \* lines of CHANGELOG.md
MaxPieces == 3      \* pieces a text line is built from
MaxLines == 4       \* lines of a file with free marker structure
MaxRuns == 2        \* calls of a replace function, or runs of the test, in a row
MaxSignals == 2     \* signals a run of the test receives

----------------------------------------------------------------------------
(* Idle values of the parts a specification does not use *)

NoSemver == [major |-> 0, minor |-> 0, patch |-> 0, suffix |-> <<>>]

ToolIdle ==
    /\ tool = "none" /\ version = <<>> /\ semver = NoSemver
    /\ CHANGELOG = <<>> /\ entries = <<>> /\ stdout = <<>> /\ exit_code = -1
    /\ tool_pc = "idle"

\* nothing was reported
NoError == [msg |-> "", arg |-> <<>>]

NoReport == [msg |-> "", arg |-> ""]

LibIdle ==
    /\ tree = <<>> /\ tree0 = <<>> /\ region = <<>> /\ x_y_z = <<>> /\ date = <<>>
    /\ runs = 0 /\ lib_exit = -1 /\ lib_err = NoError /\ listed = FALSE

SvIdle ==
    /\ new_version = <<>> /\ args = <<>> /\ commit = "" /\ wt = <<>> /\ wt0 = <<>>
    /\ files = <<>> /\ idx = 0 /\ calls = <<>> /\ lock_updated = FALSE /\ commits = <<>>
    /\ sv_exit = -1 /\ sv_err = NoReport /\ sv_pc = "idle"

TestIdle ==
    /\ repo = <<>> /\ repo0 = <<>> /\ repo_index = <<>> /\ repo_version = <<>>
    /\ UPDATE_SNAP = FALSE /\ temp_dir = "" /\ temp_exists = FALSE
    /\ temp_wt = <<>> /\ temp_index = <<>>
    /\ trap_set = FALSE /\ cleanup_defined = FALSE /\ cleanups = 0 /\ signals = 0
    /\ failed = FALSE /\ actual = <<>> /\ test_err = "" /\ test_exit = -1
    /\ test_pc = "idle" /\ test_runs = 0 /\ snap1 = <<>> /\ first_exit = -1

\* an environment variable that is not set
Unset == [set |-> FALSE, value |-> <<>>]

NoCommand == [name |-> "", hash_algo |-> <<>>, ext |-> ""]

EmptyDir == [archive |-> "", out |-> {}]

BackoffIdle ==
    /\ ATTEMPTS = Unset /\ TIMEOUT = Unset /\ command = NoCommand
    /\ max_attempts = <<>> /\ attempt = 0 /\ timeout = 0 /\ wb_exit_code = 0
    /\ tries = <<>> /\ slept = <<>> /\ cwd = EmptyDir /\ wb_return = -1 /\ wb_pc = "idle"

InstallIdle ==
    /\ ins_served = <<>> /\ ins_temp = <<>> /\ ins_temp_exists = FALSE /\ ins_trap = FALSE
    /\ ins_cleanup_defined = FALSE /\ ins_rm = 0 /\ ins_checked = {} /\ ins_dest = {}
    /\ ins_exit = -1 /\ ins_pc = "idle"

ReleaseIdle ==
    /\ rel_changelog = <<>> /\ rel_semver = NoSemver /\ rel_template = ""
    /\ env_release_version = <<>> /\ env_next_dev_version = <<>> /\ env_tags = <<>>
    /\ rel_tree = <<>> /\ rel_branch = <<>> /\ rel_tags = {}
    /\ origin_branch = <<>> /\ origin_tags = {} /\ others = {}
    /\ rel_status = "" /\ rel_pc = "idle"

RaceIdle == race_tree = <<>> /\ race_runs = <<>>

RestIdle == BackoffIdle /\ InstallIdle /\ ReleaseIdle /\ RaceIdle

ScriptsIdle == ToolIdle /\ LibIdle /\ SvIdle /\ TestIdle

----------------------------------------------------------------------------
(* Characters and text *)

Digit == {"0", "1", "2", "3", "4", "5", "6", "7", "8", "9"}
Lower == {"a", "b", "c", "d", "e", "f", "g", "h", "i", "j", "k", "l", "m",
          "n", "o", "p", "q", "r", "s", "t", "u", "v", "w", "x", "y", "z"}
Upper == {"A", "B", "C", "D", "E", "F", "G", "H", "I", "J", "K", "L", "M",
          "N", "O", "P", "Q", "R", "S", "T", "U", "V", "W", "X", "Y", "Z"}
\* \w of the regular expressions
WordChar == Digit \cup Lower \cup Upper \cup {"_"}

DigitChar == <<"0", "1", "2", "3", "4", "5", "6", "7", "8", "9">>
DigitVal(c) == CHOOSE n \in 0..9 : DigitChar[n + 1] = c

\* the decimal text of a number, as the shell expands "$minor"
RECURSIVE FormatNat(_)
FormatNat(n) ==
    IF n < 10 THEN <<DigitChar[n + 1]>>
    ELSE FormatNat(n \div 10) \o <<DigitChar[(n % 10) + 1]>>

\* the value of a decimal text, as the shell reads it in (( ))
RECURSIVE ParseNat(_)
ParseNat(s) ==
    IF s = <<>> THEN 0
    ELSE 10 * ParseNat(SubSeq(s, 1, Len(s) - 1)) + DigitVal(s[Len(s)])

Contains(s, c) == \E i \in 1..Len(s) : s[i] = c
EndsWith(s, t) == Len(t) <= Len(s) /\ SubSeq(s, Len(s) - Len(t) + 1, Len(s)) = t
StartsWithAt(s, i, t) == i + Len(t) - 1 <= Len(s) /\ SubSeq(s, i, i + Len(t) - 1) = t

\* position of the first c in s, Len(s) + 1 when there is none
FirstIndex(s, c) ==
    IF Contains(s, c) THEN CHOOSE i \in 1..Len(s) : s[i] = c /\ \A j \in 1..(i - 1) : s[j] # c
    ELSE Len(s) + 1

Tail0(s, i) == SubSeq(s, i, Len(s))     \* s from position i on

\* one past the end of the longest run of characters of class cls that starts at i
RECURSIVE RunEnd(_, _, _)
RunEnd(s, i, cls) == IF i <= Len(s) /\ s[i] \in cls THEN RunEnd(s, i + 1, cls) ELSE i


\* one past the end of  num(\.num){dots}  matched at i, 0 when it does not match
RECURSIVE NumDotted(_, _, _)
NumDotted(s, i, dots) ==
    LET e == RunEnd(s, i, Digit)
    IN  IF e = i THEN 0
        ELSE IF dots = 0 THEN e
        ELSE IF e <= Len(s) /\ s[e] = "." THEN NumDotted(s, e + 1, dots - 1)
        ELSE 0

\* one past the end of the optional suffix  (-[cls]+)?  matched at e
SuffixEnd(s, e, cls) ==
    IF e <= Len(s) /\ s[e] = "-" /\ RunEnd(s, e + 1, cls) > e + 1
    THEN RunEnd(s, e + 1, cls)
    ELSE e

\* one past the end of  num(\.num){dots}(-[cls]+)?  matched at i, 0 when it does not match
VersionEnd(s, i, dots, cls) ==
    LET e == NumDotted(s, i, dots)
    IN  IF e = 0 THEN 0 ELSE SuffixEnd(s, e, cls)

----------------------------------------------------------------------------
(* get-next-dev-version.sh, get-git-tags.sh: IFS='.' read -r major minor patch *)

ReadFields(s) ==
    LET i1 == FirstIndex(s, ".")
        rest == Tail0(s, i1 + 1)
        i2 == FirstIndex(rest, ".")
    IN  [major |-> SubSeq(s, 1, i1 - 1),
         minor |-> SubSeq(rest, 1, i2 - 1),
         patch |-> Tail0(rest, i2 + 1)]

\* get-next-dev-version.sh under `set -e`: ((minor++)) has status 1 when its
\* value, the old minor, is 0, and the script stops there
GetNextDevVersion(v) ==
    LET f == ReadFields(v)
        minor == ParseNat(f.minor)
    IN  IF minor = 0
        THEN [out |-> <<>>, code |-> 1]
        ELSE [out |-> f.major \o <<".">> \o FormatNat(minor + 1)
                        \o <<".", "0", "-", "d", "e", "v", "\n">>,
              code |-> 0]

\* get-git-tags.sh with the gate of the unstable regions in place of its own
GetGitTags_dev_gate(v) ==
    LET f == ReadFields(v)
        full == <<"v">> \o v
    IN  [out |-> IF ~EndsWith(v, <<"-", "d", "e", "v">>)
                 THEN full \o <<" ", "v">> \o f.major
                           \o <<" ", "v">> \o f.major \o <<".">> \o f.minor
                 ELSE full,
         code |-> 0]

\* get-git-tags.sh
GetGitTags(v) ==
    LET f == ReadFields(v)
        full == <<"v">> \o v
    IN  [out |-> IF ~Contains(v, "-")
                 THEN full \o <<" ", "v">> \o f.major
                           \o <<" ", "v">> \o f.major \o <<".">> \o f.minor
                 ELSE full,
         code |-> 0]

----------------------------------------------------------------------------
(* get-version-from-changelog.sh *)

HeadingOpen == <<"#", "#", " ", "[">>

\* grep --perl-regexp '## \[\K\d+\.\d+\.\d+(-\w+)?' at position i of a line:
\* one past the end of the match, 0 when it does not match
HeadingEnd(line, i) ==
    IF StartsWithAt(line, i, HeadingOpen)
    THEN VersionEnd(line, i + Len(HeadingOpen), 2, WordChar)
    ELSE 0

\* --only-matching: the matches of a line from position i on, without what
\* \K drops, one per output line
RECURSIVE GrepLine(_, _)
GrepLine(line, i) ==
    IF i > Len(line) THEN <<>>
    ELSE LET e == HeadingEnd(line, i)
         IN  IF e = 0 THEN GrepLine(line, i + 1)
             ELSE <<SubSeq(line, i + Len(HeadingOpen), e - 1)>> \o GrepLine(line, e)

RECURSIVE Grep(_)
Grep(lines) ==
    IF lines = <<>> THEN <<>> ELSE GrepLine(lines[1], 1) \o Grep(Tail(lines))

\* the pipeline without `set -o pipefail`: its status is the status of head
GetVersionFromChangelog_no_pipefail(lines) ==
    LET found == Grep(lines)
    IN  IF found = <<>>
        THEN [out |-> <<>>, code |-> 0]
        ELSE [out |-> found[1] \o <<"\n">>, code |-> 0]

\* grep ... | head --lines 1  under `set -o pipefail`
GetVersionFromChangelog(lines) ==
    LET found == Grep(lines)
    IN  IF found = <<>>
        THEN [out |-> <<>>, code |-> 1]
        ELSE [out |-> found[1] \o <<"\n">>, code |-> 0]

----------------------------------------------------------------------------
(* Inputs of the helpers *)

Suffixes == { <<>>, <<"-", "r", "c">>, <<"-", "d", "e", "v">>, <<"-", "r", "c", ".", "2">> }

SemVers == [major : 0..MaxNum, minor : 0..MaxNum, patch : 0..MaxNum, suffix : Suffixes]

VersionText(v) ==
    FormatNat(v.major) \o <<".">> \o FormatNat(v.minor) \o <<".">> \o FormatNat(v.patch)
        \o v.suffix

ChangelogVersions ==
    { [major |-> 1, minor |-> 0, patch |-> 0, suffix |-> <<>>],
      [major |-> 1, minor |-> 0, patch |-> 0, suffix |-> <<"-", "r", "c", ".", "2">>],
      [major |-> 0, minor |-> 10, patch |-> 2, suffix |-> <<"-", "r", "c">>] }

Entries ==
    { [kind |-> "title"], [kind |-> "unreleased"] }
        \cup { [kind |-> "version", ver |-> v] : v \in ChangelogVersions }

\* the line of CHANGELOG.md an entry is written as
Render(e) ==
    CASE e.kind = "title" -> <<"#", " ", "C", "h", "a", "n", "g", "e", "l", "o", "g">>
      [] e.kind = "unreleased" ->
            HeadingOpen \o <<"U", "n", "r", "e", "l", "e", "a", "s", "e", "d", "]">>
      [] e.kind = "version" -> HeadingOpen \o VersionText(e.ver) \o <<"]">>

SeqsUpTo(S, n) == UNION { [1..k -> S] : k \in 0..n }

RenderAll(es) == [i \in 1..Len(es) |-> Render(es[i])]

----------------------------------------------------------------------------
(* sed: the substitute command on one line *)

\* (v|\W) or the literal v in front of the number
PrefixOk(prefix, c) ==
    IF prefix = "v" THEN c = "v" ELSE c = "v" \/ c \notin WordChar

\* one past the end of  [0-9]{n}  matched at i, 0 when it does not match
Digits(s, i, n) ==
    IF i + n - 1 <= Len(s) /\ \A k \in i..(i + n - 1) : s[k] \in Digit THEN i + n ELSE 0

\* one past the end of  [0-9]{4}-[0-9]{2}-[0-9]{2}  matched at i, 0 when it does not match
DateEnd(s, i) ==
    LET y == Digits(s, i, 4)
        m == IF y # 0 /\ y <= Len(s) /\ s[y] = "-" THEN Digits(s, y + 1, 2) ELSE 0
    IN  IF m # 0 /\ m <= Len(s) /\ s[m] = "-" THEN Digits(s, m + 1, 2) ELSE 0

\* the characters of a match that the replacement gives back as \1
KeptPrefix(rule) == IF rule.prefix \in {"none", "date"} THEN 0 ELSE 1

\* one past the end of the pattern of the rule matched at i, 0 when it does not match
\* there: prefix num(\.num){dots}(-[cls]+)?, the same without a prefix, or a date
MatchAt(rule, s, i) ==
    IF rule.prefix = "date" THEN DateEnd(s, i)
    ELSE IF rule.prefix = "none" THEN VersionEnd(s, i, rule.dots, rule.cls)
    ELSE IF i <= Len(s) /\ PrefixOk(rule.prefix, s[i])
    THEN VersionEnd(s, i + 1, rule.dots, rule.cls)
    ELSE 0

\* s/pattern/\1repl/ from position i on: the leftmost match is replaced by the
\* prefix character it matched, if the pattern has one, and repl; with the g flag the
\* scan goes on behind it
RECURSIVE Substitute(_, _, _)
Substitute(rule, s, i) ==
    IF i > Len(s) THEN <<>>
    ELSE LET e == MatchAt(rule, s, i)
         IN  IF e = 0 THEN <<s[i]>> \o Substitute(rule, s, i + 1)
             ELSE SubSeq(s, i, i + KeptPrefix(rule) - 1) \o rule.repl
                    \o (IF rule.g THEN Substitute(rule, s, e) ELSE Tail0(s, e))

\* the commands of a { } block, applied to the line in their order
RECURSIVE ApplyScript(_, _)
ApplyScript(rules, line) ==
    IF rules = <<>> THEN line
    ELSE ApplyScript(Tail(rules), Substitute(rules[1], line, 1))

\* cut --delimiter . --fields 1
CutMajor(v) == SubSeq(v, 1, FirstIndex(v, ".") - 1)

\* cut --delimiter . --fields 1-2
CutMajorMinor(v) ==
    LET i1 == FirstIndex(v, ".")
        i2 == FirstIndex(Tail0(v, i1 + 1), ".")
    IN  IF i1 > Len(v) THEN v ELSE SubSeq(v, 1, i1 + i2 - 1)

----------------------------------------------------------------------------
(* sed: the address range  /begin marker/,/end marker/ *)

CommentBegin == { <<"#">>, <<"/", "/">>, <<"<", "!", "-", "-">> }
CommentEnd == { <<>>, <<" ", "-", "-", ">">> }

KwRegion == <<"r", "e", "g", "i", "o", "n">>
KwEndregion == <<"e", "n", "d", "r", "e", "g", "i", "o", "n">>

\* the line matches  (#|\/\/|<!--) kw reg( -->)?$
IsMarker(line, kw, reg) ==
    \E o \in CommentBegin, c \in CommentEnd :
        EndsWith(line, o \o <<" ">> \o kw \o <<" ">> \o reg \o c)

\* the { } block without its address range: every line is rewritten
SedRange_no_address(lines, i, inRange, reg, rules) ==
    [k \in 1..(Len(lines) - i + 1) |-> ApplyScript(rules, lines[k + i - 1])]

\* the lines from i on; inRange: a range is open at line i
RECURSIVE SedRange(_, _, _, _, _)
SedRange(lines, i, inRange, reg, rules) ==
    IF i > Len(lines) THEN <<>>
    ELSE IF inRange
    THEN <<ApplyScript(rules, lines[i])>>
            \o SedRange(lines, i + 1, ~IsMarker(lines[i], KwEndregion, reg), reg, rules)
    ELSE IF IsMarker(lines[i], KwRegion, reg)
    THEN <<ApplyScript(rules, lines[i])>> \o SedRange(lines, i + 1, TRUE, reg, rules)
    ELSE <<lines[i]>> \o SedRange(lines, i + 1, FALSE, reg, rules)

----------------------------------------------------------------------------
(* replace-in-regions.sh *)

KwReplace == <<"r", "e", "p", "l", "a", "c", "e", " ">>

replace_in_regions_for_file(file, tag, sed_pattern) ==
    SedRange(file, 1, FALSE, KwReplace \o tag, sed_pattern)

SnapshotPath == "scripts/release/set-version.diff"

\* git ls-files -- .  without the exclusion of the snapshot file
LsFiles_with_snapshot(t, tracked) == { p \in DOMAIN t : p \in tracked }

\* git ls-files -- . :!:scripts/release/set-version.diff
LsFiles(t, tracked) == { p \in DOMAIN t : p \in tracked /\ p # SnapshotPath }

replace_in_regions(t, tracked, tag, sed_pattern) ==
    [p \in DOMAIN t |->
        IF p \in LsFiles(t, tracked)
        THEN replace_in_regions_for_file(t[p], tag, sed_pattern)
        ELSE t[p]]

\* [0-9a-zA-Z.\-] : in a bracket expression the backslash stands for itself
LibSuffixClass == Digit \cup Lower \cup Upper \cup {".", "\\", "-"}

\* [[ "$x_y_z" =~ ^$pattern$ ]]
ValidSemver(v) == VersionEnd(v, 1, 2, LibSuffixClass) = Len(v) + 1

\* the three s commands of replace_semver_in_regions
SemverPattern(v) ==
    << [prefix |-> "vW", dots |-> 2, cls |-> LibSuffixClass, g |-> TRUE, repl |-> v],
       [prefix |-> "vW", dots |-> 1, cls |-> LibSuffixClass, g |-> TRUE,
        repl |-> CutMajorMinor(v)],
       [prefix |-> "v", dots |-> 0, cls |-> LibSuffixClass, g |-> TRUE,
        repl |-> CutMajor(v)] >>

Tracked == {"README.md", "Cargo.toml", SnapshotPath}

\* lib.sh is sourced for `die`: it reports the message and ends the script with
\* this status
die == 1

\* replace_semver_in_regions "$region" "$x_y_z": the new tree, the exit status, what
\* die reported, and whether the files were enumerated
replace_semver_in_regions(t, tag, v) ==
    IF ~ValidSemver(v)
    THEN [tree |-> t, code |-> die, listed |-> FALSE,
          err |-> [msg |-> "Please enter a valid semver version like '1.2.3'. Got '$x_y_z'.",
                   arg |-> v]]
    ELSE [tree |-> replace_in_regions(t, Tracked, tag, SemverPattern(v)), code |-> 0,
          listed |-> TRUE, err |-> NoError]

\* [[ "$date" =~ ^$pattern$ ]]
ValidDate(d) == DateEnd(d, 1) = Len(d) + 1

\* s/$pattern/$date/g
DatePattern(d) == << [prefix |-> "date", g |-> TRUE, repl |-> d] >>

\* replace_date_in_regions without the check of the date
replace_date_in_regions_unchecked(t, tag, d) ==
    [tree |-> replace_in_regions(t, Tracked, tag, DatePattern(d)), code |-> 0,
     listed |-> TRUE, err |-> NoError]

\* replace_date_in_regions "$region" "$date"
replace_date_in_regions(t, tag, d) ==
    IF ~ValidDate(d)
    THEN [tree |-> t, code |-> die, listed |-> FALSE,
          err |-> [msg |-> "Please enter a valid date like '2022-01-01'. Got '$date'.",
                   arg |-> d]]
    ELSE [tree |-> replace_in_regions(t, Tracked, tag, DatePattern(d)), code |-> 0,
          listed |-> TRUE, err |-> NoError]

----------------------------------------------------------------------------
(* Files of the repository *)

TagDev == <<"d", "e", "v">>
TagStable == <<"s", "t", "a", "b", "l", "e">>
TagToolchain == <<"r", "u", "s", "t", " ", "t", "o", "o", "l", "c", "h", "a", "i", "n", " ",
                  "d", "e", "v">>

BeginLine(open, tag, close) == open \o <<" ">> \o KwRegion \o <<" ">> \o KwReplace \o tag \o close
EndLine(open, tag, close) == open \o <<" ">> \o KwEndregion \o <<" ">> \o KwReplace \o tag \o close

Hash == <<"#">>
Slashes == <<"/", "/">>
Html == <<"<", "!", "-", "-">>
HtmlClose == <<" ", "-", "-", ">">>
OldVersion == <<"1", ".", "1", ".", "1">>

\* text lines are built from these pieces
Pieces == { <<" ">>, <<"v">>, <<"1">>, <<".">>, <<"-">>, <<"a">>, OldVersion }

RECURSIVE Flatten(_)
Flatten(ps) == IF ps = <<>> THEN <<>> ELSE ps[1] \o Flatten(Tail(ps))

TextLines == { Flatten(ps) : ps \in SeqsUpTo(Pieces, MaxPieces) }

\* a file with one dev region around one text line
RegionFiles == { <<BeginLine(Hash, TagDev, <<>>), l, EndLine(Hash, TagDev, <<>>)>> : l \in TextLines }

\* lines of the files with free marker structure
LinePool ==
    { BeginLine(Hash, TagDev, <<>>),
      BeginLine(Html, TagDev, HtmlClose),
      EndLine(Slashes, TagDev, <<>>),
      BeginLine(Hash, TagStable, <<>>),
      EndLine(Hash, TagStable, <<>>),
      <<" ">> \o OldVersion }

MarkerFiles == SeqsUpTo(LinePool, MaxLines)

\* the snapshot file holds marker lines of its own
SnapshotFile == <<BeginLine(Hash, TagDev, <<>>), <<"-", " ">> \o OldVersion, EndLine(Hash, TagDev, <<>>)>>

NewVersion == <<"4", ".", "5", ".", "6">>

LibVersions ==
    { NewVersion,
      <<"4", ".", "5", ".", "6", "-", "r", "c">>,
      <<"4", ".", "5">>,
      <<"v", "4", ".", "5", ".", "6">> }

\* the files of the repository: two tracked files, the tracked snapshot file, and a
\* file git does not track
LibPaths == {"README.md", "Cargo.toml", SnapshotPath, "target/doc.md"}

LibInit ==
    /\ region = TagDev
    /\ x_y_z \in LibVersions
    /\ \E f \in RegionFiles \cup (IF x_y_z = NewVersion THEN MarkerFiles ELSE {}) :
          tree = [p \in LibPaths |-> IF p = "README.md" THEN f ELSE SnapshotFile]
    /\ tree0 = tree
    /\ date = <<>>
    /\ runs = 0 /\ lib_exit = -1 /\ lib_err = NoError /\ listed = FALSE
    /\ ToolIdle /\ SvIdle /\ TestIdle /\ RestIdle

\* a call ends the script when it fails, and is followed by the next call otherwise
Return(r) ==
    /\ tree' = r.tree /\ lib_exit' = r.code /\ lib_err' = r.err /\ listed' = r.listed
    /\ runs' = runs + 1
    /\ UNCHANGED <<tree0, region, x_y_z, date, toolVars, svVars, testVars, restVars>>

RunReplaceSemverInRegions ==
    /\ runs < MaxRuns
    /\ lib_exit \in {-1, 0}
    /\ region # TagToolchain
    /\ Return(replace_semver_in_regions(tree, region, x_y_z))

LibNext == RunReplaceSemverInRegions

SpecLib == LibInit /\ [][LibNext]_vars

----------------------------------------------------------------------------
(* The update of the toolchain date: replace_date_in_regions "rust toolchain dev" "$1" *)

OldDate == <<"2", "0", "2", "3", "-", "1", "1", "-", "1", "6">>

\* the lines of the toolchain region are built from these pieces
DatePieces == { <<"n", "-">>, OldDate, <<"7">>, <<"-">>, <<" ">> }

DateLines == { Flatten(ps) : ps \in SeqsUpTo(DatePieces, MaxPieces) }

DateFiles ==
    { <<BeginLine(Hash, TagToolchain, <<>>), l, EndLine(Hash, TagToolchain, <<>>)>> :
        l \in DateLines }

NewDate == <<"2", "0", "2", "4", "-", "0", "1", "-", "3", "1">>

\* dates as a caller may pass them
Dates ==
    { NewDate,
      <<"2", "0", "2", "4", "-", "1", "-", "3", "1">>,
      <<"2", "4", "-", "0", "1", "-", "3", "1">>,
      <<"2", "0", "2", "4", "/", "0", "1", "/", "3", "1">>,
      <<"2", "0", "2", "4", "-", "0", "1", "-", "3", "1", "T">>,
      <<>> }

DateInit ==
    /\ region = TagToolchain
    /\ date \in Dates
    /\ x_y_z = <<>>
    /\ \E f \in DateFiles :
          tree = [p \in LibPaths |->
                    IF p = "README.md" THEN f
                    ELSE <<BeginLine(Hash, TagToolchain, <<>>), OldDate,
                           EndLine(Hash, TagToolchain, <<>>)>>]
    /\ tree0 = tree
    /\ runs = 0 /\ lib_exit = -1 /\ lib_err = NoError /\ listed = FALSE
    /\ ToolIdle /\ SvIdle /\ TestIdle /\ RestIdle

RunReplaceDateInRegions ==
    /\ runs < MaxRuns
    /\ lib_exit \in {-1, 0}
    /\ region = TagToolchain
    /\ Return(replace_date_in_regions(tree, region, date))

DateNext == RunReplaceDateInRegions

----------------------------------------------------------------------------
(* set-version.sh *)

KwReplaceVersion == <<"r", "e", "p", "l", "a", "c", "e", "-", "v", "e", "r", "s", "i", "o", "n", " ">>

\* [0-9a-zA-Z.]
SvSuffixClass == Digit \cup Lower \cup Upper \cup {"."}

\* the three s commands of `replace`: none has the g flag, each has the (v|\W) prefix
ReplacePattern(v) ==
    << [prefix |-> "vW", dots |-> 2, cls |-> SvSuffixClass, g |-> FALSE, repl |-> v],
       [prefix |-> "vW", dots |-> 1, cls |-> SvSuffixClass, g |-> FALSE,
        repl |-> CutMajorMinor(v)],
       [prefix |-> "vW", dots |-> 0, cls |-> SvSuffixClass, g |-> FALSE,
        repl |-> CutMajor(v)] >>

\* replace "$file" <class>
replace(file, class, v) ==
    SedRange(file, 1, FALSE, KwReplaceVersion \o class, ReplacePattern(v))

TagUnstable == <<"u", "n", "s", "t", "a", "b", "l", "e">>

ClassTag(c) ==
    CASE c = "dev" -> TagDev [] c = "unstable" -> TagUnstable [] c = "stable" -> TagStable

\* no gate: the unstable regions are rewritten for every version
UnstableGate_always(v) == TRUE

\* the gate of the stable regions used for the unstable ones too
UnstableGate_any_suffix(v) == ~Contains(v, "-")

\* [[ "$new_version" != *-dev ]]
UnstableGate(v) == ~EndsWith(v, <<"-", "d", "e", "v">>)
\* [[ "$new_version" != *-* ]]
StableGate(v) == ~Contains(v, "-")

\* find . -type f \( -name "*.rs" -o -name "*.md" -o -name "*.toml" -o -name "*.sh" -o -name "*.ps1" \)
FindExtensions == {"rs", "md", "toml", "sh", "ps1"}
Extension(p) ==
    CASE p = "README.md" -> "md" [] p = "Cargo.toml" -> "toml" [] p = "notes.txt" -> "txt"
      [] p = "target/doc.md" -> "md" [] p = "Cargo.lock" -> "lock" [] p = SnapshotPath -> "diff"
Found(t) == { p \in DOMAIN t : Extension(p) \in FindExtensions }

Orders(S) == { o \in [1..Cardinality(S) -> S] : \A p \in S : \E i \in DOMAIN o : o[i] = p }

SvBegin(c) == Html \o <<" ">> \o KwRegion \o <<" ">> \o KwReplaceVersion \o ClassTag(c) \o HtmlClose
SvEnd(c) == Html \o <<" ">> \o KwEndregion \o <<" ">> \o KwReplaceVersion \o ClassTag(c) \o HtmlClose

\* lines as the repository has them inside its regions
SvLines ==
    { <<"-", "-", "r", "e", "t", "r", "y", " ", "5", " ", "-", "-", "d", "e", "l", "a", "y", " ", "3", "0">>,
      <<"/", "v", "0", ".", "2", ".", "1", "/", "i", "n", "s", "t", "a", "l", "l", ".", "s", "h">>,
      <<"\"", "0", ".", "4", ".", "0", "-", "d", "e", "v", "\"">>,
      <<"@", "v", "0", ".", "4">>,
      <<"@", "v", "0">> }

SvClasses == {"dev", "unstable", "stable"}

\* a file with one region of class c around one line
SvFile(c, l) == <<SvBegin(c), l, SvEnd(c)>>

SvVersions ==
    { <<"2", ".", "0", ".", "0">>,
      <<"2", ".", "0", ".", "0", "-", "d", "e", "v">>,
      <<"2", ".", "0", ".", "0", "-", "r", "c", ".", "1">>,
      <<"2", ".", "0">> }

SvOptions ==
    { <<>>, <<"--commit", "release">>, <<"--commit", "">>, <<"--commit">>, <<"--force">>,
      <<"--commit", "release", "--force">> }

\* the files git tracks; target/ is a build directory that git ignores
SvTracked == {"README.md", "Cargo.toml", "notes.txt"}

\* the state after  new_version="$1"; shift
SvInit ==
    /\ new_version \in SvVersions
    /\ args \in SvOptions
    /\ commit = ""
    /\ \E c \in SvClasses, l \in SvLines :
          wt = [p \in SvTracked \cup {"target/doc.md"} |->
                  CASE p = "README.md" -> SvFile(c, l)
                    [] p = "Cargo.toml" ->
                          SvFile("dev", l) \o SvFile("unstable", l) \o SvFile("stable", l)
                    [] p = "notes.txt" -> SvFile("dev", l)
                    [] p = "target/doc.md" -> SvFile("dev", l)]
    /\ wt0 = wt
    /\ files = <<>> /\ idx = 0 /\ calls = <<>>
    /\ lock_updated = FALSE /\ commits = <<>>
    /\ sv_exit = -1 /\ sv_err = NoReport /\ sv_pc = "options"
    /\ ToolIdle /\ LibIdle /\ TestIdle /\ RestIdle

SvExit(code) == sv_exit' = code /\ sv_pc' = "done"

\* one round of the option loop (lines 17-29); `set -u` ends the script when
\* --commit has no value
ParseOption ==
    /\ sv_pc = "options" /\ args # <<>>
    /\ IF args[1] = "--commit"
       THEN IF Len(args) >= 2
            THEN /\ commit' = args[2] /\ args' = Tail(Tail(args))
                 /\ UNCHANGED <<sv_exit, sv_err, sv_pc>>
            ELSE SvExit(1) /\ UNCHANGED <<commit, args, sv_err>>
       ELSE /\ SvExit(die)
            /\ sv_err' = [msg |-> "Unknown option: $1", arg |-> args[1]]
            /\ UNCHANGED <<commit, args>>
    /\ UNCHANGED <<new_version, wt, wt0, files, idx, calls, lock_updated, commits,
                   toolVars, libVars, testVars, restVars>>

\* files=($(find ...)): find lists the files in the order of the directory
FindFiles ==
    /\ sv_pc = "options" /\ args = <<>>
    /\ files' \in Orders(Found(wt))
    /\ idx' = 1
    /\ sv_pc' = "dev"
    /\ UNCHANGED <<new_version, args, commit, wt, wt0, calls, lock_updated, commits,
                   sv_exit, sv_err, toolVars, libVars, testVars, restVars>>

\* where the loop goes after the replace call of class c
AfterClass(c) ==
    IF c = "dev" /\ UnstableGate(new_version) THEN <<idx, "unstable">>
    ELSE IF c \in {"dev", "unstable"} /\ StableGate(new_version) THEN <<idx, "stable">>
    ELSE <<idx + 1, "dev">>

Replace(c) ==
    /\ sv_pc = c /\ idx <= Len(files)
    /\ wt' = [wt EXCEPT ![files[idx]] = replace(@, ClassTag(c), new_version)]
    /\ calls' = Append(calls, <<files[idx], c>>)
    /\ idx' = AfterClass(c)[1]
    /\ sv_pc' = AfterClass(c)[2]
    /\ UNCHANGED <<new_version, args, commit, wt0, files, lock_updated, commits,
                   sv_exit, sv_err, toolVars, libVars, testVars, restVars>>

\* replace "$file" dev
ReplaceDev == sv_pc = "dev" /\ Replace("dev")

\* replace "$file" unstable
ReplaceUnstable == sv_pc = "unstable" /\ Replace("unstable")

\* replace "$file" stable
ReplaceStable == sv_pc = "stable" /\ Replace("stable")

\* sed cannot rewrite the file (it is read-only, it was removed): `set -e` ends the script
SedFails ==
    /\ sv_pc \in SvClasses /\ idx <= Len(files)
    /\ SvExit(4)
    /\ UNCHANGED <<new_version, args, commit, wt, wt0, files, idx, calls, lock_updated,
                   commits, sv_err, toolVars, libVars, testVars, restVars>>

\* with_log cargo +stable update --workspace
CargoUpdate ==
    /\ sv_pc = "dev" /\ idx > Len(files)
    /\ lock_updated' = TRUE
    /\ IF commit # "" THEN sv_pc' = "commit" /\ UNCHANGED sv_exit ELSE SvExit(0)
    /\ UNCHANGED <<new_version, args, commit, wt, wt0, files, idx, calls, commits,
                   sv_err, toolVars, libVars, testVars, restVars>>

\* the failure of cargo update is ignored, as it would be without `set -e`
CargoUpdateFails_ignored ==
    /\ sv_pc = "dev" /\ idx > Len(files)
    /\ IF commit # "" THEN sv_pc' = "commit" /\ UNCHANGED sv_exit ELSE SvExit(0)
    /\ UNCHANGED <<new_version, args, commit, wt, wt0, files, idx, calls, lock_updated,
                   commits, sv_err, toolVars, libVars, testVars, restVars>>

\* cargo update fails (no network, no toolchain): `set -e` ends the script
CargoUpdateFails ==
    /\ sv_pc = "dev" /\ idx > Len(files)
    /\ SvExit(101)
    /\ UNCHANGED <<new_version, args, commit, wt, wt0, files, idx, calls, lock_updated,
                   commits, sv_err, toolVars, libVars, testVars, restVars>>

\* with_log git commit --all --message "$commit": the commit holds the tracked files
\* as the working tree has them, Cargo.lock among them
GitCommit ==
    /\ sv_pc = "commit"
    /\ commits' = Append(commits, [message |-> commit,
                                   tree |-> [p \in SvTracked |-> wt[p]],
                                   lock |-> lock_updated])
    /\ SvExit(0)
    /\ UNCHANGED <<new_version, args, commit, wt, wt0, files, idx, calls, lock_updated,
                   sv_err, toolVars, libVars, testVars, restVars>>

GitCommitFails ==
    /\ sv_pc = "commit"
    /\ SvExit(1)
    /\ UNCHANGED <<new_version, args, commit, wt, wt0, files, idx, calls, lock_updated,
                   commits, sv_err, toolVars, libVars, testVars, restVars>>

SvNext ==
    \/ ParseOption \/ FindFiles
    \/ ReplaceDev \/ ReplaceUnstable \/ ReplaceStable \/ SedFails
    \/ CargoUpdate \/ CargoUpdateFails
    \/ GitCommit \/ GitCommitFails

SpecSetVersion == SvInit /\ [][SvNext]_vars

----------------------------------------------------------------------------
(* test.sh: set-version.sh run as a whole, git diff, and the normalization *)

\* the replace calls of the file loop on one file
ReplaceAll(file, v) ==
    LET d == replace(file, TagDev, v)
        u == IF UnstableGate(v) THEN replace(d, TagUnstable, v) ELSE d
    IN  IF StableGate(v) THEN replace(u, TagStable, v) ELSE u

\* a run of set-version.sh without options that ends with status 0: the file loop, and
\* cargo update, which writes the version of the manifest to the lock file
set_version(t, v) ==
    LET r == [p \in DOMAIN t |-> IF p \in Found(t) THEN ReplaceAll(t[p], v) ELSE t[p]]
    IN  [r EXCEPT !["Cargo.lock"] = <<r["Cargo.toml"][2]>>]

\* ./scripts/release/set-version.sh '0.1.0'
TestVersion == <<"0", ".", "1", ".", "0">>

\* the files of the repository in the order git diff lists them
TestPaths == <<"Cargo.lock", "Cargo.toml", "README.md", SnapshotPath>>

PathText(p) ==
    CASE p = "Cargo.lock" -> <<"C", "a", "r", "g", "o", ".", "l", "o", "c", "k">>
      [] p = "Cargo.toml" -> <<"C", "a", "r", "g", "o", ".", "t", "o", "m", "l">>
      [] p = "README.md" -> <<"R", "E", "A", "D", "M", "E", ".", "m", "d">>
      [] p = SnapshotPath ->
            <<"s", "c", "r", "i", "p", "t", "s", "/", "r", "e", "l", "e", "a", "s", "e", "/",
              "s", "e", "t", "-", "v", "e", "r", "s", "i", "o", "n", ".", "d", "i", "f", "f">>

\* git add without --all stages nothing: the index stays as it was copied
GitAddAll_none(wtree, index) == index

\* git add --all: the index holds every file as the working tree has it
GitAddAll(wtree, index) == wtree

Changed(a, b) == { i \in 1..Len(a) : a[i] # b[i] }

\* --unified=1: a changed line is shown with one line of context on either side
Shown(a, b) == { i \in 1..Len(a) : \E c \in Changed(a, b) : i - c \in {-1, 0, 1} }

\* one past the last line of the run of lines in S that starts at i
RECURSIVE RunOf(_, _, _)
RunOf(S, i, n) == IF i <= n /\ i \in S THEN RunOf(S, i + 1, n) ELSE i

Marked(c, lines) == [k \in 1..Len(lines) |-> <<c>> \o lines[k]]

\* the lines i..(e - 1) of a hunk: context lines, and for every run of changed lines
\* the old lines and then the new ones
RECURSIVE HunkBody(_, _, _, _)
HunkBody(a, b, i, e) ==
    IF i >= e THEN <<>>
    ELSE IF i \in Changed(a, b)
    THEN LET j == RunOf(Changed(a, b), i, e - 1)
         IN  Marked("-", SubSeq(a, i, j - 1)) \o Marked("+", SubSeq(b, i, j - 1))
                \o HunkBody(a, b, j, e)
    ELSE <<<<" ">> \o a[i]>> \o HunkBody(a, b, i + 1, e)

\* the range of a hunk header: start,count, and the start alone when the count is 1
HunkRange(start, count) ==
    FormatNat(start) \o (IF count = 1 THEN <<>> ELSE <<",">> \o FormatNat(count))

\* @@ -start,count +start,count @@ ; no line of the files below stands in front of a
\* hunk, so git finds no section heading to add behind the second @@
HunkHeader(start, count) ==
    <<"@", "@", " ", "-">> \o HunkRange(start, count) \o <<" ", "+">>
        \o HunkRange(start, count) \o <<" ", "@", "@">>

\* the hunks of two files of the same length, from line i on
RECURSIVE Hunks(_, _, _)
Hunks(a, b, i) ==
    IF i > Len(a) THEN <<>>
    ELSE IF i \notin Shown(a, b) THEN Hunks(a, b, i + 1)
    ELSE LET e == RunOf(Shown(a, b), i, Len(a))
         IN  <<HunkHeader(i, e - i)>> \o HunkBody(a, b, i, e) \o Hunks(a, b, e)

\* the hunk of two files of different length: sed never changes the number of lines,
\* so this is the diff of a file that was replaced as a whole
WholeFileHunk(a, b) ==
    <<<<"@", "@", " ", "-">> \o HunkRange(1, Len(a)) \o <<" ", "+">>
        \o HunkRange(1, Len(b)) \o <<" ", "@", "@">>>>
        \o Marked("-", a) \o Marked("+", b)

\* the lines in front of the hunks; of `index <hash>..<hash> <mode>` only the first
\* word is kept, the line is filtered as a whole
DiffGit == <<"d", "i", "f", "f", " ", "-", "-", "g", "i", "t", " ", "a", "/">>
IndexLine == <<"i", "n", "d", "e", "x">>
MinusLine == <<"-", "-", "-", " ", "a", "/">>
PlusLine == <<"+", "+", "+", " ", "b", "/">>

\* git diff --unified=1 of one file
FileDiff(p, a, b) ==
    IF a = b THEN <<>>
    ELSE << DiffGit \o PathText(p) \o <<" ", "b", "/">> \o PathText(p),
            IndexLine,
            MinusLine \o PathText(p),
            PlusLine \o PathText(p) >>
            \o (IF Len(a) = Len(b) THEN Hunks(a, b, 1) ELSE WholeFileHunk(a, b))

\* git diff --unified=1: the working tree against the index
RECURSIVE GitDiff(_, _, _)
GitDiff(index, wtree, k) ==
    IF k > Len(TestPaths) THEN <<>>
    ELSE FileDiff(TestPaths[k], index[TestPaths[k]], wtree[TestPaths[k]])
            \o GitDiff(index, wtree, k + 1)

HasSub(line, t) == \E i \in 1..Len(line) : StartsWithAt(line, i, t)

\* the line matches  ^(index)|(@@.*@@ )|(--- .*)|(\+\+\+ .*)
Filtered(line) ==
    \/ StartsWithAt(line, 1, <<"i", "n", "d", "e", "x">>)
    \/ \E i, j \in 1..Len(line) :
          /\ i + 2 <= j
          /\ StartsWithAt(line, i, <<"@", "@">>)
          /\ StartsWithAt(line, j, <<"@", "@", " ">>)
    \/ HasSub(line, <<"-", "-", "-", " ">>)
    \/ HasSub(line, <<"+", "+", "+", " ">>)

\* grep --invert-match keeps the line
Kept(line) == ~Filtered(line)

\* the placeholders: s/$num\.$num\.$num/X.Y.Z/g ; s/$num\.$num/X.Y/g ; s/v$num/vX/g
Placeholders ==
    << [prefix |-> "none", dots |-> 2, cls |-> {}, g |-> TRUE, repl |-> <<"X", ".", "Y", ".", "Z">>],
       [prefix |-> "none", dots |-> 1, cls |-> {}, g |-> TRUE, repl |-> <<"X", ".", "Y">>],
       [prefix |-> "v", dots |-> 0, cls |-> {}, g |-> TRUE, repl |-> <<"X">>] >>

Bslash == <<" ", "b", "/">>

\* s/diff --git a\/(.*) b\/.*/\n=== \1 ===/ : the lines that the line becomes
TitleLine(line) ==
    IF \E i, j \in 1..Len(line) :
          StartsWithAt(line, i, DiffGit) /\ i + Len(DiffGit) <= j /\ StartsWithAt(line, j, Bslash)
    THEN LET i == CHOOSE i \in 1..Len(line) :
                    /\ StartsWithAt(line, i, DiffGit)
                    /\ \E j \in (i + Len(DiffGit))..Len(line) : StartsWithAt(line, j, Bslash)
                    /\ \A h \in 1..(i - 1) :
                          ~(StartsWithAt(line, h, DiffGit)
                              /\ \E j \in (h + Len(DiffGit))..Len(line) :
                                    StartsWithAt(line, j, Bslash))
             j == CHOOSE j \in (i + Len(DiffGit))..Len(line) :
                    /\ StartsWithAt(line, j, Bslash)
                    /\ \A h \in (j + 1)..Len(line) : ~StartsWithAt(line, h, Bslash)
         IN  << SubSeq(line, 1, i - 1),
                <<"=", "=", "=", " ">> \o SubSeq(line, i + Len(DiffGit), j - 1)
                    \o <<" ", "=", "=", "=">> >>
    ELSE <<line>>

\* the sed script of the test on one line: the title, and on a line that starts with -
\* the placeholders
NormalizeLine(line) ==
    LET t == TitleLine(line)
    IN  IF Len(t) = 1 /\ line # <<>> /\ line[1] = "-"
        THEN <<ApplyScript(Placeholders, line)>>
        ELSE t

RECURSIVE Normalize(_)
Normalize(lines) ==
    IF lines = <<>> THEN <<>> ELSE NormalizeLine(lines[1]) \o Normalize(Tail(lines))

\* $( ... ) drops the newlines at the end of the output
RECURSIVE StripTrailing(_)
StripTrailing(lines) ==
    IF lines # <<>> /\ lines[Len(lines)] = <<>>
    THEN StripTrailing(SubSeq(lines, 1, Len(lines) - 1))
    ELSE lines

\* echo "$actual": the lines of the text; of the empty text, one empty line
Echo(lines) == IF lines = <<>> THEN << <<>> >> ELSE lines

\* actual=$( git diff --unified=1 | grep --invert-match ... | sed ... ) under
\* `set -o pipefail`: grep has status 1 when it keeps no line
Pipeline(index, wtree) ==
    LET kept == SelectSeq(GitDiff(index, wtree, 1), Kept)
    IN  [actual |-> StripTrailing(Normalize(kept)),
         code |-> IF kept = <<>> THEN 1 ELSE 0]

----------------------------------------------------------------------------
(* test.sh *)

Quoted(v) == <<"\"">> \o v \o <<"\"">>

\* versions the repository may hold
TestVersions ==
    { <<"0", ".", "4", ".", "0", "-", "d", "e", "v">>,
      <<"0", ".", "5", ".", "1", "-", "d", "e", "v">>,
      <<"0", ".", "4", ".", "0", "-", "r", "c">>,
      <<"0", ".", "1", ".", "0">>,
      <<"0", ".", "1", ".", "7">>,
      <<"1", ".", "2", ".", "3">> }

\* a repository that holds the version v: the manifest with the version in a dev
\* region, the lock file with the version of the manifest, a README with the sliding
\* tag in a stable region, and the snapshot file
TestRepo(v, snap) ==
    [p \in {"Cargo.lock", "Cargo.toml", "README.md", SnapshotPath} |->
        CASE p = "Cargo.lock" -> <<Quoted(v)>>
          [] p = "Cargo.toml" -> SvFile("dev", Quoted(v))
          [] p = "README.md" -> SvFile("stable", <<"@", "v">> \o CutMajorMinor(v))
          [] p = SnapshotPath -> snap]

\* the normalized diff of the test in a repository
NormalizedDiff(t) == Pipeline(t, set_version(t, TestVersion)).actual

\* snapshot files: the empty file, and the files the test writes for the versions
Snapshots == { <<>> } \cup { Echo(NormalizedDiff(TestRepo(v, <<>>))) : v \in TestVersions }

TestInit ==
    /\ repo_version \in TestVersions
    /\ \E snap \in Snapshots : repo = TestRepo(repo_version, snap)
    /\ repo0 = repo /\ repo_index = repo
    /\ UPDATE_SNAP \in BOOLEAN
    /\ temp_dir = "" /\ temp_exists = FALSE /\ temp_wt = <<>> /\ temp_index = <<>>
    /\ trap_set = FALSE /\ cleanup_defined = FALSE /\ cleanups = 0 /\ signals = 0
    /\ failed = FALSE /\ actual = <<>> /\ test_err = "" /\ test_exit = -1
    /\ test_pc = "trap" /\ test_runs = 1 /\ snap1 = <<>> /\ first_exit = -1
    /\ ToolIdle /\ LibIdle /\ SvIdle /\ RestIdle

\* function cleanup (lines 17-22): the traps are reset and the directory is removed
Cleanup ==
    /\ trap_set' = FALSE
    /\ cleanups' = cleanups + 1
    /\ temp_exists' = FALSE /\ temp_wt' = <<>> /\ temp_index' = <<>>

\* the end of the script: the EXIT trap runs `cleanup` if it is still set; while the
\* function is not defined the trap fails with `command not found`, status 127
TestExit(code) ==
    /\ test_pc' = "done"
    /\ IF trap_set /\ cleanup_defined
       THEN Cleanup /\ test_exit' = code
       ELSE /\ test_exit' = IF trap_set /\ code # 0 THEN 127 ELSE code
            /\ UNCHANGED <<trap_set, cleanups, temp_exists, temp_wt, temp_index>>

\* trap cleanup SIGINT SIGTERM ERR EXIT (line 13)
RegisterTrap ==
    /\ test_pc = "trap"
    /\ trap_set' = TRUE
    /\ test_pc' = "mktemp"
    /\ UNCHANGED <<repo, repo0, repo_index, repo_version, UPDATE_SNAP, temp_dir, temp_exists,
                   temp_wt, temp_index, cleanup_defined, cleanups, signals, failed, actual,
                   test_err, test_exit, test_runs, snap1, first_exit,
                   toolVars, libVars, svVars, restVars>>

\* temp_dir=$(mktemp -d) (line 15)
Mktemp ==
    /\ test_pc = "mktemp"
    /\ temp_dir' = "tmp" /\ temp_exists' = TRUE
    /\ test_pc' = "define"
    /\ UNCHANGED <<repo, repo0, repo_index, repo_version, UPDATE_SNAP, temp_wt, temp_index,
                   trap_set, cleanup_defined, cleanups, signals, failed, actual,
                   test_err, test_exit, test_runs, snap1, first_exit,
                   toolVars, libVars, svVars, restVars>>

\* function cleanup { ... } (lines 17-22): from here on the name is defined
DefineCleanup ==
    /\ test_pc = "define"
    /\ cleanup_defined' = TRUE
    /\ test_pc' = "rsync"
    /\ UNCHANGED <<repo, repo0, repo_index, repo_version, UPDATE_SNAP, temp_dir, temp_exists,
                   temp_wt, temp_index, trap_set, cleanups, signals, failed, actual,
                   test_err, test_exit, test_runs, snap1, first_exit,
                   toolVars, libVars, svVars, restVars>>

\* rsync --archive --exclude-from .gitignore . "$temp_dir" (line 24): the files and
\* .git are copied; rsync creates the directory when it does not exist
Rsync ==
    /\ test_pc = "rsync"
    /\ temp_exists' = TRUE /\ temp_wt' = repo /\ temp_index' = repo_index
    /\ test_pc' = "pushd"
    /\ UNCHANGED <<repo, repo0, repo_index, repo_version, UPDATE_SNAP, temp_dir,
                   trap_set, cleanup_defined, cleanups, signals, failed, actual,
                   test_err, test_exit, test_runs, snap1, first_exit,
                   toolVars, libVars, svVars, restVars>>

\* pushd "$temp_dir" (line 26)
Pushd ==
    /\ test_pc = "pushd"
    /\ IF temp_exists
       THEN /\ test_pc' = "add"
            /\ UNCHANGED <<test_exit, trap_set, cleanups, temp_exists, temp_wt, temp_index>>
       ELSE TestExit(1)
    /\ UNCHANGED <<repo, repo0, repo_index, repo_version, UPDATE_SNAP, temp_dir,
                   cleanup_defined, signals, failed, actual,
                   test_err, test_runs, snap1, first_exit,
                   toolVars, libVars, svVars, restVars>>

\* git add --all (line 29); in a directory that was removed git ends with status 128
GitAdd ==
    /\ test_pc = "add"
    /\ IF temp_exists
       THEN /\ temp_index' = GitAddAll(temp_wt, temp_index)
            /\ test_pc' = "set-version"
            /\ UNCHANGED <<test_exit, trap_set, cleanups, temp_exists, temp_wt>>
       ELSE TestExit(128)
    /\ UNCHANGED <<repo, repo0, repo_index, repo_version, UPDATE_SNAP, temp_dir,
                   cleanup_defined, signals, failed, actual,
                   test_err, test_runs, snap1, first_exit,
                   toolVars, libVars, svVars, restVars>>

\* set-version.sh run in the repository itself, as it would be without pushd
SetVersion_in_place ==
    /\ test_pc = "set-version"
    /\ repo' = set_version(repo, TestVersion)
    /\ test_pc' = "diff"
    /\ UNCHANGED <<repo0, repo_index, repo_version, UPDATE_SNAP, temp_dir, temp_exists,
                   temp_wt, temp_index, trap_set, cleanup_defined, cleanups, signals, failed,
                   actual, test_err, test_exit, test_runs, snap1, first_exit,
                   toolVars, libVars, svVars, restVars>>

\* ./scripts/release/set-version.sh '0.1.0' (line 31); in a directory that was removed
\* the script is not found, status 127
SetVersion ==
    /\ test_pc = "set-version"
    /\ IF temp_exists
       THEN /\ temp_wt' = set_version(temp_wt, TestVersion)
            /\ test_pc' = "diff"
            /\ UNCHANGED <<test_exit, trap_set, cleanups, temp_exists, temp_index>>
       ELSE TestExit(127)
    /\ UNCHANGED <<repo, repo0, repo_index, repo_version, UPDATE_SNAP, temp_dir,
                   cleanup_defined, signals, failed, actual,
                   test_err, test_runs, snap1, first_exit,
                   toolVars, libVars, svVars, restVars>>

\* actual=$( ... ) (lines 44-53): `set -e` ends the script when the pipeline fails; in
\* a directory that was removed git diff prints nothing
Diff ==
    /\ test_pc = "diff"
    /\ LET r == IF temp_exists THEN Pipeline(temp_index, temp_wt)
                ELSE [actual |-> <<>>, code |-> 1]
       IN  IF r.code = 0
           THEN /\ actual' = r.actual
                /\ test_pc' = "mode"
                /\ UNCHANGED <<test_exit, trap_set, cleanups, temp_exists, temp_wt,
                               temp_index>>
           ELSE TestExit(r.code) /\ UNCHANGED actual
    /\ UNCHANGED <<repo, repo0, repo_index, repo_version, UPDATE_SNAP, temp_dir,
                   cleanup_defined, signals, failed,
                   test_err, test_runs, snap1, first_exit,
                   toolVars, libVars, svVars, restVars>>

\* [[ -v UPDATE_SNAP ]]: popd; echo "$actual" > "$snap"; exit 0 (lines 55-59)
Update ==
    /\ test_pc = "mode" /\ UPDATE_SNAP
    /\ repo' = [repo EXCEPT ![SnapshotPath] = Echo(actual)]
    /\ TestExit(0)
    /\ UNCHANGED <<repo0, repo_index, repo_version, UPDATE_SNAP, temp_dir,
                   cleanup_defined, signals, failed, actual,
                   test_err, test_runs, snap1, first_exit,
                   toolVars, libVars, svVars, restVars>>

\* echo "$actual" | git diff --no-index --exit-code "$snap" - || err=1 (lines 61-76):
\* the snapshot file is the one of the current directory, the temporary one
Verify ==
    /\ test_pc = "mode" /\ ~UPDATE_SNAP
    /\ IF temp_exists /\ Echo(actual) = temp_wt[SnapshotPath]
       THEN TestExit(0) /\ UNCHANGED test_err
       ELSE /\ TestExit(die)
            /\ test_err' = "The test snapshot is outdated. UPDATE_SNAP=1 ./scripts/release/test.sh"
    /\ UNCHANGED <<repo, repo0, repo_index, repo_version, UPDATE_SNAP, temp_dir,
                   cleanup_defined, signals, failed, actual,
                   test_runs, snap1, first_exit,
                   toolVars, libVars, svVars, restVars>>

\* a command fails for a reason outside the script (no space, no network, a file
\* that cannot be read): `set -e` ends the script
CommandFails ==
    /\ test_pc \in {"mktemp", "rsync", "pushd", "add", "set-version", "diff"}
    /\ failed' = TRUE
    /\ TestExit(1)
    /\ UNCHANGED <<repo, repo0, repo_index, repo_version, UPDATE_SNAP, temp_dir,
                   cleanup_defined, signals, actual,
                   test_err, test_runs, snap1, first_exit,
                   toolVars, libVars, svVars, restVars>>

\* status of a script that a signal ends
Killed(sig) == IF sig = "SIGINT" THEN 130 ELSE 143

\* SIGINT or SIGTERM reaches the script; bash runs the trap between two commands.
\* Without the trap the signal ends the script. With it `cleanup` runs, and as
\* cleanup does not exit, the script goes on with its next command; while cleanup is
\* not defined the trap fails and `set -e` ends the script
Signal ==
    /\ test_pc \notin {"idle", "done"}
    /\ signals < MaxSignals
    /\ signals' = signals + 1
    /\ IF ~trap_set
       THEN /\ \E sig \in {"SIGINT", "SIGTERM"} : test_exit' = Killed(sig)
            /\ test_pc' = "done"
            /\ UNCHANGED <<trap_set, cleanups, temp_exists, temp_wt, temp_index>>
       ELSE IF cleanup_defined
       THEN Cleanup /\ UNCHANGED <<test_exit, test_pc>>
       ELSE TestExit(127)
    /\ UNCHANGED <<repo, repo0, repo_index, repo_version, UPDATE_SNAP, temp_dir,
                   cleanup_defined, failed, actual,
                   test_err, test_runs, snap1, first_exit,
                   toolVars, libVars, svVars, restVars>>

\* UPDATE_SNAP=1 ./scripts/release/test.sh once more, in the repository as the run
\* before left it; what that run left in /tmp is not this run's directory
RunAgain ==
    /\ test_pc = "done" /\ UPDATE_SNAP
    /\ test_runs < MaxRuns
    /\ test_runs' = test_runs + 1
    /\ snap1' = repo[SnapshotPath] /\ first_exit' = test_exit
    /\ temp_dir' = "" /\ temp_exists' = FALSE /\ temp_wt' = <<>> /\ temp_index' = <<>>
    /\ trap_set' = FALSE /\ cleanup_defined' = FALSE /\ cleanups' = 0 /\ signals' = 0
    /\ failed' = FALSE /\ actual' = <<>> /\ test_err' = "" /\ test_exit' = -1
    /\ test_pc' = "trap"
    /\ UNCHANGED <<repo, repo0, repo_index, repo_version, UPDATE_SNAP,
                   toolVars, libVars, svVars, restVars>>

TestNext ==
    \/ RegisterTrap \/ Mktemp \/ DefineCleanup \/ Rsync \/ Pushd \/ GitAdd \/ SetVersion
    \/ Diff \/ Update \/ Verify
    \/ CommandFails \/ Signal \/ RunAgain

SpecTest == TestInit /\ [][TestNext]_vars

----------------------------------------------------------------------------
(* The three entry points that check their arguments, side by side *)

UsageInit == LibInit \/ DateInit \/ SvInit

UsageNext == LibNext \/ DateNext \/ SvNext

SpecUsage == UsageInit /\ [][UsageNext]_vars

----------------------------------------------------------------------------
(* The helpers as one-step programs *)

ToolInit ==
    /\ tool \in {"get-next-dev-version", "get-git-tags", "get-version-from-changelog"}
    /\ IF tool = "get-version-from-changelog"
       THEN /\ entries \in SeqsUpTo(Entries, MaxEntries)
            /\ CHANGELOG = RenderAll(entries)
            /\ semver = NoSemver /\ version = <<>>
       ELSE /\ semver \in SemVers
            /\ (tool = "get-next-dev-version" => semver.suffix = <<>>)
            /\ version = VersionText(semver)
            /\ entries = <<>> /\ CHANGELOG = <<>>
    /\ stdout = <<>> /\ exit_code = -1 /\ tool_pc = "start"
    /\ LibIdle /\ SvIdle /\ TestIdle /\ RestIdle

Finish(r) ==
    /\ stdout' = r.out
    /\ exit_code' = r.code
    /\ tool_pc' = "done"
    /\ UNCHANGED <<tool, version, semver, CHANGELOG, entries, libVars, svVars, testVars, restVars>>

RunGetNextDevVersion ==
    /\ tool_pc = "start" /\ tool = "get-next-dev-version"
    /\ Finish(GetNextDevVersion(version))

RunGetGitTags ==
    /\ tool_pc = "start" /\ tool = "get-git-tags"
    /\ Finish(GetGitTags(version))

RunGetVersionFromChangelog ==
    /\ tool_pc = "start" /\ tool = "get-version-from-changelog"
    /\ Finish(GetVersionFromChangelog(CHANGELOG))

ToolNext == RunGetNextDevVersion \/ RunGetGitTags \/ RunGetVersionFromChangelog

SpecTools == ToolInit /\ [][ToolNext]_vars

----------------------------------------------------------------------------
(* Claims about the helpers *)

ToolDone(t) == tool_pc = "done" /\ tool = t

\* C5: for every released version X.Y.Z (Y = 0 included) get-next-dev-version.sh
\* exits with status 0 and prints exactly X.(Y+1).0-dev
C5_NextDevVersionPrinted ==
    ToolDone("get-next-dev-version") =>
        /\ exit_code = 0
        /\ stdout = FormatNat(semver.major) \o <<".">> \o FormatNat(semver.minor + 1)
                        \o <<".", "0", "-", "d", "e", "v", "\n">>

FirstVersionEntry ==
    LET i == CHOOSE i \in 1..Len(entries) :
                 /\ entries[i].kind = "version"
                 /\ \A j \in 1..(i - 1) : entries[j].kind # "version"
    IN  entries[i].ver

\* C6: get-version-from-changelog prints exactly the version of the first
\* `## [X.Y.Z[-suffix]]` heading, with its complete suffix, skipping headings that
\* are no version and ignoring all later version headings
C6_FirstHeadingVersionPrinted ==
    (ToolDone("get-version-from-changelog")
        /\ \E i \in 1..Len(entries) : entries[i].kind = "version") =>
        stdout = VersionText(FirstVersionEntry) \o <<"\n">>

\* C7: get-git-tags prints the full tag vV first, and the sliding tags vX and vX.Y
\* after it, in that order and separated by spaces, iff V has no suffix
C7_GitTags ==
    ToolDone("get-git-tags") =>
        LET full == <<"v">> \o VersionText(semver)
            major == <<"v">> \o FormatNat(semver.major)
            minor == major \o <<".">> \o FormatNat(semver.minor)
        IN  /\ exit_code = 0
            /\ stdout = IF semver.suffix = <<>>
                        THEN full \o <<" ">> \o major \o <<" ">> \o minor
                        ELSE full

\* 1.4.2 gives `v1.4.2 v1 v1.4`
C7_Witness ==
    /\ ToolDone("get-git-tags")
    /\ semver = [major |-> 1, minor |-> 4, patch |-> 2, suffix |-> <<>>]
    /\ stdout = <<"v", "1", ".", "4", ".", "2", " ", "v", "1", " ", "v", "1", ".", "4">>

\* C14: when CHANGELOG.md holds no `## [X.Y.Z...]` version heading,
\* get-version-from-changelog ends with a non-zero status and prints nothing
C14_NoHeadingNoVersion ==
    (ToolDone("get-version-from-changelog")
        /\ \A i \in 1..Len(entries) : entries[i].kind # "version") =>
        (exit_code # 0 /\ stdout = <<>>)

\* a changelog of a title and the Unreleased heading only
C14_Witness ==
    /\ ToolDone("get-version-from-changelog")
    /\ entries = <<[kind |-> "title"], [kind |-> "unreleased"]>>
    /\ exit_code = 1 /\ stdout = <<>>

----------------------------------------------------------------------------
(* Claims about replace-in-regions.sh *)

LibRegion == KwReplace \o region
IsBeginOf(f, i) == IsMarker(f[i], KwRegion, LibRegion)
IsEndOf(f, i) == IsMarker(f[i], KwEndregion, LibRegion)

\* line i lies in a range that a begin marker opens and the next end marker closes
InRegion(f, i) ==
    \E b \in 1..i : IsBeginOf(f, b) /\ \A k \in (b + 1)..(i - 1) : ~IsEndOf(f, k)

\* every begin marker is followed by an end marker
AllClosed(f) ==
    \A b \in 1..Len(f) : IsBeginOf(f, b) => \E e \in (b + 1)..Len(f) : IsEndOf(f, e)

HasDigit(l) == \E i \in 1..Len(l) : l[i] \in Digit
NotTokenChar(c) == c \notin LibSuffixClass
\* what a line keeps when every character a version token can hold is taken out
Skeleton(l) == SelectSeq(l, NotTokenChar)
\* the line up to its first digit
BeforeDigits(l) == SubSeq(l, 1, CHOOSE k \in 0..Len(l) :
                                    /\ \A j \in 1..k : l[j] \notin Digit
                                    /\ (k < Len(l) => l[k + 1] \in Digit))

\* C2: in a file whose begin markers of the region are all followed by an end marker,
\* the replacement leaves every line outside the [begin, end] ranges as it was, and
\* inside the ranges changes nothing but version tokens: the file keeps its lines, a
\* line without a digit is kept, and a line keeps its text up to the first digit and
\* every character that no version token can hold
C2_OnlyTokensInsideRegionsChange ==
    (runs >= 1 /\ lib_exit = 0) =>
        \A p \in DOMAIN tree :
            LET f0 == tree0[p]
                f == tree[p]
            IN  AllClosed(f0) =>
                  /\ Len(f) = Len(f0)
                  /\ \A i \in 1..Len(f0) :
                        IF InRegion(f0, i)
                        THEN /\ Skeleton(f[i]) = Skeleton(f0[i])
                             /\ BeforeDigits(f[i]) = BeforeDigits(f0[i])
                             /\ (~HasDigit(f0[i]) => f[i] = f0[i])
                        ELSE f[i] = f0[i]

\* a version outside the region is kept while the one inside is rewritten
C2_Witness ==
    /\ runs = 1 /\ lib_exit = 0
    /\ AllClosed(tree0["README.md"])
    /\ \E i, j \in 1..Len(tree0["README.md"]) :
          /\ ~InRegion(tree0["README.md"], i)
          /\ tree0["README.md"][i] = <<" ">> \o OldVersion
          /\ tree["README.md"][i] = <<" ">> \o OldVersion
          /\ InRegion(tree0["README.md"], j)
          /\ tree0["README.md"][j] = <<" ">> \o OldVersion
          /\ tree["README.md"][j] = <<" ">> \o x_y_z

\* C3: running replace_semver_in_regions a second time with the same valid version
\* changes nothing
C3_SecondRunChangesNothing ==
    [][(runs = 1 /\ lib_exit = 0 /\ runs' = 2) => tree' = tree]_vars

\* the line is blanks, an optional v, one full version token X.Y.Z[-suffix], blanks
TokenStart(l) ==
    LET a == RunEnd(l, 1, {" "})
    IN  IF a <= Len(l) /\ l[a] = "v" THEN a + 1 ELSE a
IsTokenLine(l) ==
    LET e == VersionEnd(l, TokenStart(l), 2, LibSuffixClass)
    IN  e # 0 /\ \A k \in e..Len(l) : l[k] = " "
WithNewToken(l, v) ==
    SubSeq(l, 1, TokenStart(l) - 1) \o v
        \o Tail0(l, VersionEnd(l, TokenStart(l), 2, LibSuffixClass))

\* C4: a full version token inside a region is replaced as a whole by the new full
\* version wherever it stands in its line; no part of the old token remains and the
\* minor and major rules rewrite no part of it
C4_FullTokenReplacedAsAWhole ==
    (runs = 1 /\ lib_exit = 0) =>
        \A i \in 1..Len(tree0["README.md"]) :
            (InRegion(tree0["README.md"], i) /\ IsTokenLine(tree0["README.md"][i])) =>
                tree["README.md"][i] = WithNewToken(tree0["README.md"][i], x_y_z)

\* a begin marker without a later end marker, or an end marker without an earlier begin
Unmatched(f) ==
    \/ \E b \in 1..Len(f) : IsBeginOf(f, b) /\ ~\E e \in (b + 1)..Len(f) : IsEndOf(f, e)
    \/ \E e \in 1..Len(f) : IsEndOf(f, e) /\ ~\E b \in 1..(e - 1) : IsBeginOf(f, b)

\* C8: a file with an unmatched marker of the region is left unchanged as a whole,
\* and no error is reported
C8_UnmatchedMarkerIsNoOp ==
    (runs >= 1 /\ ValidSemver(x_y_z)) =>
        \A p \in DOMAIN tree :
            Unmatched(tree0[p]) => (tree[p] = tree0[p] /\ lib_exit = 0)

\* the closing of a comment that o opens
CloseOf(o) == IF o = Html THEN HtmlClose ELSE <<>>

\* the line is the marker kw of the region, written in the comment syntax that o opens
IsMarkerIn(line, kw, o) ==
    EndsWith(line, o \o <<" ">> \o kw \o <<" ">> \o LibRegion \o CloseOf(o))

IsAnyMarker(line) == IsMarker(line, KwRegion, LibRegion) \/ IsMarker(line, KwEndregion, LibRegion)

\* C19: an endregion marker written in another comment syntax than the begin marker
\* that opened the region does not close it: equal lines before and behind such a
\* marker are in the same region, and come out of the replacement equal
C19_ForeignEndMarkerDoesNotClose ==
    (runs = 1 /\ lib_exit = 0) =>
        LET f0 == tree0["README.md"]
            f == tree["README.md"]
        IN  \A o \in CommentBegin : \A b, i, e, j \in 1..Len(f0) :
                ( /\ b < i /\ i < e /\ e < j
                  /\ IsMarkerIn(f0[b], KwRegion, o)
                  /\ IsEndOf(f0, e) /\ ~IsMarkerIn(f0[e], KwEndregion, o)
                  /\ \A k \in 1..j : k \notin {b, e} => ~IsAnyMarker(f0[k])
                  /\ f0[i] = f0[j] )
                => f[i] = f[j]

\* C20: a run rewrites the regions of every tracked file but the snapshot file,
\* which stays as it was although it holds marker lines around a version
C20_SnapshotFileNeverModified ==
    (runs >= 1 /\ lib_exit = 0) =>
        /\ tree[SnapshotPath] = tree0[SnapshotPath]
        /\ \A p \in Tracked \ {SnapshotPath} :
              tree0[p] = SnapshotFile =>
                  tree[p] = <<SnapshotFile[1], <<"-", " ">> \o x_y_z, SnapshotFile[3]>>

\* README.md with the text of the snapshot file is rewritten, the snapshot file is not
C20_Witness ==
    /\ runs = 1 /\ lib_exit = 0
    /\ tree0["README.md"] = SnapshotFile
    /\ tree0[SnapshotPath] = SnapshotFile
    /\ IsBeginOf(SnapshotFile, 1) /\ InRegion(SnapshotFile, 2)
    /\ tree["README.md"][2] = <<"-", " ">> \o x_y_z
    /\ tree["Cargo.toml"][2] = <<"-", " ">> \o x_y_z
    /\ tree[SnapshotPath] = SnapshotFile

----------------------------------------------------------------------------
(* Claims about set-version.sh *)

ClassesApplied(p) == { c \in SvClasses : \E k \in 1..Len(calls) : calls[k] = <<p, c>> }

\* the region classes the version is to update
ClassesOf(v) ==
    {"dev"} \cup (IF EndsWith(v, <<"-", "d", "e", "v">>) THEN {} ELSE {"unstable"})
            \cup (IF Contains(v, "-") THEN {} ELSE {"stable"})

\* Cargo.toml holds one region of each class, three lines each
RegionLine(c) == CASE c = "dev" -> 2 [] c = "unstable" -> 5 [] c = "stable" -> 8

\* C1: a run applies the dev replacement to every file, the unstable one iff the
\* version does not end in -dev, the stable one iff the version has no - at all;
\* the regions of exactly these classes are rewritten
C1_Gating ==
    (sv_pc = "done" /\ sv_exit = 0) =>
        /\ \A i \in 1..Len(files) : ClassesApplied(files[i]) = ClassesOf(new_version)
        /\ \A c \in SvClasses :
              (wt["Cargo.toml"][RegionLine(c)] # wt0["Cargo.toml"][RegionLine(c)])
                  <=> c \in ClassesOf(new_version)

\* 2.0.0-rc.1 touches the dev and unstable regions and not the stable one
C1_Witness ==
    /\ sv_pc = "done" /\ sv_exit = 0
    /\ new_version = <<"2", ".", "0", ".", "0", "-", "r", "c", ".", "1">>
    /\ ClassesApplied("Cargo.toml") = {"dev", "unstable"}
    /\ wt["Cargo.toml"][2] # wt0["Cargo.toml"][2]
    /\ wt["Cargo.toml"][5] # wt0["Cargo.toml"][5]
    /\ wt["Cargo.toml"][8] = wt0["Cargo.toml"][8]

\* C9: `replace` rewrites a bare number only behind a literal v: a line that holds
\* neither a v nor a dotted number keeps its integers, like `--retry 5 --delay 30`
C9_BareIntegersKept ==
    \A p \in DOMAIN wt : \A i \in 1..Len(wt0[p]) :
        (~Contains(wt0[p][i], "v") /\ ~Contains(wt0[p][i], ".")) => wt[p][i] = wt0[p][i]

\* the date has the form YYYY-MM-DD
IsDate(d) ==
    /\ Len(d) = 10 /\ d[5] = "-" /\ d[8] = "-"
    /\ \A k \in {1, 2, 3, 4, 6, 7, 9, 10} : d[k] \in Digit

\* the version has the form X.Y.Z[-suffix]
WellFormed(v) == VersionEnd(v, 1, 2, SvSuffixClass) = Len(v) + 1

\* C10: with a version that is not of the form X.Y.Z[-suffix] the script modifies no
\* file and ends with a non-zero status
C10_MalformedVersionRejected ==
    ~WellFormed(new_version) =>
        /\ wt = wt0
        /\ (sv_pc = "done" => sv_exit # 0)

\* the version is X.Y.Z, or X.Y.Z, a hyphen and a suffix that is not empty
HasVersionForm(v) ==
    LET e == NumDotted(v, 1, 2)
    IN  e # 0 /\ (e = Len(v) + 1 \/ (v[e] = "-" /\ e < Len(v)))

\* C11: a usage error modifies nothing: replace_semver_in_regions with a version that
\* is not X.Y.Z[-suffix], replace_date_in_regions with a date that is not YYYY-MM-DD
\* and set-version.sh with an unknown option end with a non-zero status and a report
\* that names the offending input, before any file is enumerated or rewritten
C11_UsageErrorModifiesNothing ==
    /\ (runs >= 1 /\ region # TagToolchain /\ ~HasVersionForm(x_y_z)) =>
          /\ lib_exit # 0 /\ lib_err.msg # "" /\ lib_err.arg = x_y_z
          /\ ~listed /\ tree = tree0
    /\ (runs >= 1 /\ region = TagToolchain /\ ~IsDate(date)) =>
          /\ lib_exit # 0 /\ lib_err.msg # "" /\ lib_err.arg = date
          /\ ~listed /\ tree = tree0
    /\ (sv_pc = "done" /\ args # <<>> /\ args[1] # "--commit") =>
          /\ sv_exit # 0 /\ sv_err.msg # "" /\ sv_err.arg = args[1]
          /\ files = <<>> /\ calls = <<>> /\ wt = wt0
          /\ ~lock_updated /\ commits = <<>>

\* the date 24-01-31 is refused although README.md holds a date to replace
C11_Witness ==
    /\ runs = 1 /\ region = TagToolchain
    /\ date = <<"2", "4", "-", "0", "1", "-", "3", "1">>
    /\ tree0["README.md"][2] = <<"n", "-">> \o OldDate
    /\ lib_exit = die /\ lib_err.arg = date /\ ~listed
    /\ tree = tree0

\* the files the run rewrote
Rewritten == { p \in DOMAIN wt : wt[p] # wt0[p] }

\* C12: a run that ends with status 0 has created a commit iff a non-empty --commit
\* message was given; no run creates more than one commit, a run without a message
\* creates none, and the commit holds every file the run rewrote and the change of
\* the lock file
C12_CommitIffMessage ==
    sv_pc = "done" =>
        /\ Len(commits) <= 1
        /\ (commit = "" => commits = <<>>)
        /\ (sv_exit = 0 => (commits # <<>> <=> commit # ""))
        /\ \A k \in 1..Len(commits) :
              /\ commits[k].lock
              /\ \A p \in Rewritten :
                    p \in DOMAIN commits[k].tree /\ commits[k].tree[p] = wt[p]

\* every file that find lists has had the replace calls of the version
RewritesComplete ==
    \A p \in Found(wt0) : ClassesApplied(p) = ClassesOf(new_version)

\* C13: the steps of a run come in the order rewrites of all files, update of the
\* lock file, commit: the lock file is updated only after every rewrite, and a commit
\* is created only after the update; a failing rewrite or a failing update ends the
\* run with a non-zero status, and no rewrite, update or commit follows it
C13_StepOrder ==
    /\ [](/\ lock_updated => RewritesComplete
          /\ commits # <<>> => lock_updated
          /\ (sv_pc = "done" /\ sv_exit = 0) => lock_updated
          /\ sv_exit \notin {-1, 0} => sv_pc = "done")
    /\ [][/\ lock_updated => wt' = wt
          /\ commits # <<>> => (wt' = wt /\ lock_updated' = lock_updated)
          /\ (sv_pc \in SvClasses /\ sv_pc' = "done" /\ ~lock_updated') => sv_exit' > 0
          /\ sv_pc = "done" =>
                (wt' = wt /\ lock_updated' = lock_updated /\ commits' = commits)]_vars

\* the update of the lock file fails after every rewrite: the commit that was asked for
\* is not created
C13_Witness ==
    /\ sv_pc = "done" /\ sv_exit = 101
    /\ commit = "release"
    /\ RewritesComplete /\ wt # wt0
    /\ ~lock_updated /\ commits = <<>>

----------------------------------------------------------------------------
(* Claims about test.sh *)

\* the run came to its end without a signal and without a command failing for a reason
\* outside the script
CleanRun == test_pc = "done" /\ test_runs = 1 /\ signals = 0 /\ ~failed

\* C15: in verify mode the test never writes the snapshot file, ends with status 0 if
\* the normalized diff equals the snapshot file, and with a non-zero status and the
\* remediation message otherwise; in update mode it writes the normalized diff to the
\* snapshot file and ends with status 0, whatever the file held
C15_SnapshotModes ==
    /\ (test_pc # "idle" /\ ~UPDATE_SNAP) => repo = repo0
    /\ CleanRun =>
          LET diff == Echo(NormalizedDiff(repo0))
          IN  IF UPDATE_SNAP
              THEN test_exit = 0 /\ repo[SnapshotPath] = diff
              ELSE IF diff = repo0[SnapshotPath]
              THEN test_exit = 0
              ELSE test_exit > 0 /\ test_err # ""

\* C16: the cleanup trap is set before the first command that can fail, and on every
\* way the run can end (exit, failing command, SIGINT, SIGTERM) cleanup has run exactly
\* once if a temporary directory was made, and the directory no longer exists
C16_CleanupOnEveryExit ==
    /\ test_pc = "mktemp" => trap_set
    /\ test_pc = "done" =>
          /\ ~temp_exists
          /\ cleanups <= 1
          /\ (temp_dir # "" => cleanups = 1)

\* C17: a second run in update mode leaves the snapshot file as the first run left it
C17_SecondUpdateSameSnapshot ==
    (test_runs = 2 /\ first_exit = 0) => repo[SnapshotPath] = snap1

\* two runs in update mode, both to their end: the first replaced the snapshot file,
\* the second wrote the same text again
C17_Witness ==
    /\ test_runs = 2 /\ first_exit = 0
    /\ test_pc = "done" /\ test_exit = 0 /\ signals = 0 /\ ~failed
    /\ actual # <<>>
    /\ repo[SnapshotPath] = Echo(actual)
    /\ snap1 = Echo(actual)
    /\ snap1 # repo0[SnapshotPath]

\* a version to compare with
RefVersion == <<"0", ".", "4", ".", "0", "-", "d", "e", "v">>

\* C18: the normalized diff does not depend on the version the repository held: it is
\* the normalized diff of the repository that holds another version in its place
C18_DiffIndependentOfVersion ==
    (test_runs = 1 /\ test_pc = "mode") =>
        actual = NormalizedDiff(TestRepo(RefVersion, repo0[SnapshotPath]))

----------------------------------------------------------------------------
(* lib.sh: with_backoff, and the commands the scripts retry with it *)

\* ${ATTEMPTS-5}, ${TIMEOUT-1}
Default(var, d) == IF var.set THEN var.value ELSE d

\* [[ $a < $b ]]: inside [[ ]] the operator < compares the two texts, character
\* by character, and a text is greater than each of its proper prefixes
RECURSIVE StringLess(_, _)
StringLess(a, b) ==
    IF b = <<>> THEN FALSE
    ELSE IF a = <<>> THEN TRUE
    ELSE IF a[1] = b[1] THEN StringLess(Tail(a), Tail(b))
    ELSE DigitVal(a[1]) < DigitVal(b[1])

\* the text ${hash_algo}sum prints for a file
HashSum(content) == <<"h", content>>

\* the archive types try_download_and_decompress knows
TarTypes == {"tar.gz", "tgz", "tar.xz"}

\* try_download_and_decompress (download/lib.sh) with the shell option errexit
\* as the caller left it, on the directory dir, when the server answers net:
\*   curl $url --remote-name; the hash check when --check-hash was given;
\*   tar or gzip by the type of the url; rm $archive
\* A failing command ends the script under errexit only; without it the next
\* command runs, and the function returns the status of its last command, rm.
try_download_and_decompress(c, errexit, dir, net) ==
    LET got == IF net.archive = "fail" THEN dir.archive ELSE net.archive
        curl_ok == net.archive # "fail"
        checked == c.hash_algo # <<>>
        hash == IF net.hash = "fail" THEN <<>> ELSE HashSum(net.hash)
        check_ok == got # "" /\ net.hash # "fail" /\ HashSum(got) = hash
        known == c.ext \in TarTypes \cup {"gz"}
        unpack_ok == got # ""
        none == [archive |-> got, checked |-> FALSE, check_ok |-> FALSE,
                 extracted |-> FALSE, code |-> 1, exited |-> TRUE, dir |-> dir]
    IN  IF errexit /\ ~curl_ok
        THEN [none EXCEPT !.code = 22]
        ELSE IF errexit /\ checked /\ ~check_ok
        THEN [none EXCEPT !.checked = TRUE, !.dir = [dir EXCEPT !.archive = got]]
        ELSE IF ~known
        THEN [none EXCEPT !.checked = checked, !.check_ok = checked /\ check_ok,
                          !.dir = [dir EXCEPT !.archive = got]]
        ELSE IF errexit /\ ~unpack_ok
        THEN [none EXCEPT !.checked = checked, !.check_ok = checked /\ check_ok,
                          !.code = 2]
        ELSE [archive |-> got, checked |-> checked, check_ok |-> checked /\ check_ok,
              extracted |-> unpack_ok,
              code |-> IF got # "" THEN 0 ELSE 1,
              exited |-> FALSE,
              dir |-> [archive |-> "",
                       out |-> IF unpack_ok THEN dir.out \cup {got} ELSE dir.out]]

\* what the server may answer: the archive as it was published, another
\* archive under its name, or an error; the published hash, another one, or an error
Answers == [archive : {"genuine", "tampered", "fail"}, hash : {"genuine", "other", "fail"}]

\* gh release upload (upload.sh): it succeeds or fails, and touches no local file
gh_release_upload(dir, ok) ==
    [archive |-> "", checked |-> FALSE, check_ok |-> FALSE, extracted |-> FALSE,
     code |-> IF ok THEN 0 ELSE 1, exited |-> FALSE, dir |-> dir]

Commands ==
    { [name |-> "gh release upload", hash_algo |-> <<>>, ext |-> ""] }
    \cup { [name |-> "try_download_and_decompress", hash_algo |-> h, ext |-> e] :
             h \in {<<>>, <<"s", "h", "a", "2", "5", "6">>},
             e \in {"tar.gz", "gz", "zip"} }

AttemptsValues == {0, 1, 2, 3, 5, 10, 35}
TimeoutValues == {1, 3}

\* the state after the four `local` lines of with_backoff (lines 25-28)
BackoffInit ==
    /\ ATTEMPTS \in {Unset} \cup { [set |-> TRUE, value |-> FormatNat(n)] : n \in AttemptsValues }
    /\ TIMEOUT \in {Unset} \cup { [set |-> TRUE, value |-> FormatNat(n)] : n \in TimeoutValues }
    /\ command \in Commands
    /\ max_attempts = Default(ATTEMPTS, <<"5">>)
    /\ timeout = ParseNat(Default(TIMEOUT, <<"1">>))
    /\ attempt = 0 /\ wb_exit_code = 0
    /\ tries = <<>> /\ slept = <<>> /\ cwd = EmptyDir
    /\ wb_return = -1 /\ wb_pc = "loop"
    /\ ScriptsIdle /\ InstallIdle /\ ReleaseIdle /\ RaceIdle

\* the result r of the command in one round of the loop (lines 32-56)
Round(r) ==
    /\ tries' = Append(tries, [archive |-> r.archive, checked |-> r.checked,
                               check_ok |-> r.check_ok, extracted |-> r.extracted,
                               code |-> r.code])
    /\ cwd' = r.dir
    /\ wb_exit_code' = r.code
    /\ IF r.exited
       THEN /\ wb_pc' = "done" /\ wb_return' = -2
            /\ UNCHANGED <<slept, attempt, timeout>>
       ELSE IF r.code = 0
       THEN /\ wb_pc' = "return"
            /\ UNCHANGED <<slept, attempt, timeout, wb_return>>
       ELSE /\ slept' = Append(slept, timeout)
            /\ attempt' = attempt + 1
            /\ timeout' = timeout * 2
            /\ UNCHANGED <<wb_pc, wb_return>>
    /\ UNCHANGED <<ATTEMPTS, TIMEOUT, command, max_attempts,
                   toolVars, libVars, svVars, testVars, installVars, releaseVars,
                   raceVars>>

\* while [[ $attempt < $max_attempts ]]
LoopTest == StringLess(FormatNat(attempt), max_attempts)

\* one round with the command of upload.sh
TryUpload ==
    /\ wb_pc = "loop" /\ LoopTest
    /\ command.name = "gh release upload"
    /\ \E ok \in BOOLEAN : Round(gh_release_upload(cwd, ok))

\* one round with the command of download_and_decompress: the command runs
\* between `set +o errexit` and `set -o errexit`
TryDownload ==
    /\ wb_pc = "loop" /\ LoopTest
    /\ command.name = "try_download_and_decompress"
    /\ \E net \in Answers : Round(try_download_and_decompress(command, FALSE, cwd, net))

\* the loop is over: return $exit_code (lines 59-63)
WbReturn ==
    /\ \/ wb_pc = "return"
       \/ wb_pc = "loop" /\ ~LoopTest
    /\ wb_return' = wb_exit_code
    /\ wb_pc' = "done"
    /\ UNCHANGED <<ATTEMPTS, TIMEOUT, command, max_attempts, attempt, timeout, wb_exit_code,
                   tries, slept, cwd, toolVars, libVars, svVars, testVars, installVars, releaseVars,
                   raceVars>>

BackoffNext == TryUpload \/ TryDownload \/ WbReturn

SpecBackoff == BackoffInit /\ [][BackoffNext]_vars

----------------------------------------------------------------------------
(* Claims about with_backoff and download_and_decompress *)

\* with_backoff returned to its caller
WbDone == wb_pc = "done" /\ wb_return >= 0

AllFailed == \A i \in DOMAIN tries : tries[i].code # 0

RECURSIVE Pow2(_)
Pow2(n) == IF n = 0 THEN 1 ELSE 2 * Pow2(n - 1)

\* C25: for every ATTEMPTS >= 1 a command that fails on every attempt is run
\* exactly ATTEMPTS times before with_backoff gives up, and the waits start at
\* TIMEOUT seconds and double after each failure
C25_AttemptsAndWaits ==
    (WbDone /\ AllFailed /\ ParseNat(max_attempts) >= 1)
        => /\ Len(tries) = ParseNat(max_attempts)
           /\ \A i \in DOMAIN slept :
                 slept[i] = ParseNat(Default(TIMEOUT, <<"1">>)) * Pow2(i - 1)

\* C29: for every ATTEMPTS >= 0 with_backoff returns 0 only if an attempt was
\* made and exited 0, no attempt follows a successful one, and when no attempt
\* succeeds it returns the non-zero exit code of the last attempt
C29_ReturnCode ==
    WbDone
        => /\ (wb_return = 0 => tries # <<>> /\ tries[Len(tries)].code = 0)
           /\ \A i \in 1..(Len(tries) - 1) : tries[i].code # 0
           /\ (AllFailed => /\ tries # <<>>
                            /\ wb_return = tries[Len(tries)].code
                            /\ wb_return # 0)

\* C24: with --check-hash the archive is decompressed only if its hash matches
\* the downloaded one; when the hash never matches nothing is extracted and
\* download_and_decompress returns non-zero after its retries
C24_ExtractOnlyAfterHashMatch ==
    /\ \A i \in DOMAIN tries :
          (tries[i].checked /\ tries[i].extracted) => tries[i].check_ok
    /\ (WbDone /\ command.hash_algo # <<>> /\ tries # <<>>
          /\ \A i \in DOMAIN tries : ~tries[i].check_ok)
        => (cwd.out = {} /\ wb_return # 0)

----------------------------------------------------------------------------
(* install.sh *)

Bins == <<"cargo-marker", "marker_rustc_driver">>

\* $file_stem.tar.gz, $file_stem.sha256, and the zip archive of the release page
TarGz(bin) == <<bin, "tar.gz">>
Sha256(bin) == <<bin, "sha256">>
Zip(bin) == <<bin, "zip">>

\* sha256sum --check that accepts every file
Sha256sumCheck_accept_all(dir, lines) == TRUE

\* sha256sum --ignore-missing --check on the lines of a checksum file, in the
\* directory dir: a line whose file is missing is skipped, a file whose hash
\* differs fails the check, and so does a run that verified no file at all
Sha256sumCheck(dir, lines) ==
    LET present == { i \in DOMAIN lines : lines[i].name \in DOMAIN dir }
    IN  /\ present # {}
        /\ \A i \in present : HashSum(dir[lines[i].name]) = lines[i].hash

\* the checksum files a release page may hold for a binary: the one upload.sh
\* writes (tar.gz and zip), one without the line of the tar.gz, an empty one,
\* and one with the hash of another archive
ShaFiles(bin) ==
    { << [name |-> TarGz(bin), hash |-> HashSum("genuine")],
         [name |-> Zip(bin), hash |-> HashSum("zip")] >>,
      << [name |-> Zip(bin), hash |-> HashSum("zip")] >>,
      << >>,
      << [name |-> TarGz(bin), hash |-> HashSum("other")],
         [name |-> Zip(bin), hash |-> HashSum("zip")] >> }

Served == [archive : {"genuine", "tampered"}, sha : UNION { ShaFiles(Bins[i]) : i \in 1..2 }]

\* the state after host_triple=$(...) (line 30)
InstallInit ==
    /\ ins_served \in { f \in [{Bins[1], Bins[2]} -> Served] :
                          \A b \in DOMAIN f : f[b].sha \in ShaFiles(b) }
    /\ ins_temp = <<>> /\ ins_temp_exists = FALSE
    /\ ins_trap = FALSE /\ ins_cleanup_defined = FALSE /\ ins_rm = 0
    /\ ins_checked = {} /\ ins_dest = {}
    /\ ins_exit = -1 /\ ins_pc = "trap"
    /\ ScriptsIdle /\ BackoffIdle /\ ReleaseIdle /\ RaceIdle

\* the script ends with status code: the ERR and EXIT traps run cleanup (lines
\* 36-41), which resets the traps and removes $temp_dir; before line 36 the
\* trap command is not found, and that is the status
InsExit(code) ==
    /\ ins_exit' = (IF ins_trap /\ ~ins_cleanup_defined THEN 127 ELSE code)
    /\ ins_pc' = "done"
    /\ IF ins_trap /\ ins_cleanup_defined
       THEN /\ ins_trap' = FALSE /\ ins_rm' = ins_rm + 1
            /\ ins_temp_exists' = FALSE /\ ins_temp' = <<>>
       ELSE UNCHANGED <<ins_trap, ins_rm, ins_temp_exists, ins_temp>>

\* what no step of the script changes
InsFrame == UNCHANGED <<ins_served, toolVars, libVars, svVars, testVars, backoffVars, releaseVars,
                   raceVars>>

\* trap cleanup SIGINT SIGTERM ERR EXIT (line 32)
InsRegisterTrap ==
    /\ ins_pc = "trap"
    /\ ins_trap' = TRUE
    /\ ins_pc' = "mktemp"
    /\ UNCHANGED <<ins_temp, ins_temp_exists, ins_cleanup_defined, ins_rm, ins_checked,
                   ins_dest, ins_exit>>
    /\ InsFrame

\* temp_dir=$(mktemp -d) (line 34)
InsMktemp ==
    /\ ins_pc = "mktemp"
    /\ ins_temp_exists' = TRUE
    /\ ins_pc' = "cleanup"
    /\ UNCHANGED <<ins_temp, ins_trap, ins_cleanup_defined, ins_rm, ins_checked, ins_dest,
                   ins_exit>>
    /\ InsFrame

\* function cleanup { ... } (lines 36-41)
InsDefineCleanup ==
    /\ ins_pc = "cleanup"
    /\ ins_cleanup_defined' = TRUE
    /\ ins_pc' = "curl"
    /\ UNCHANGED <<ins_temp, ins_temp_exists, ins_trap, ins_rm, ins_checked, ins_dest,
                   ins_exit>>
    /\ InsFrame

\* curl --fail --remote-name --output-dir "$temp_dir" .../$files (lines 46-55):
\* the two archives and the two checksum files
InsCurl ==
    /\ ins_pc = "curl"
    /\ ins_temp' = [n \in { TarGz(Bins[i]) : i \in 1..2 } \cup { Sha256(Bins[i]) : i \in 1..2 } |->
                      IF n[2] = "tar.gz" THEN ins_served[n[1]].archive
                      ELSE ins_served[n[1]].sha]
    /\ ins_pc' = "check1"
    /\ UNCHANGED <<ins_temp_exists, ins_trap, ins_cleanup_defined, ins_rm, ins_checked,
                   ins_dest, ins_exit>>
    /\ InsFrame

\* a command of the script fails for a reason outside it (no network, no
\* space, no destination directory): `set -e` ends the script
InsCommandFails ==
    /\ ins_pc \in {"mktemp", "curl", "tar1", "tar2"}
    /\ InsExit(IF ins_pc \in {"tar1", "tar2"} THEN 2 ELSE 1)
    /\ UNCHANGED <<ins_cleanup_defined, ins_checked, ins_dest>>
    /\ InsFrame

\* the binary the step pc is about
BinOf(pc) == IF pc \in {"check1", "tar1"} THEN Bins[1] ELSE Bins[2]

\* the archives of $temp_dir, which the check reads
ArchivesIn(dir) == [n \in { m \in DOMAIN dir : m[2] = "tar.gz" } |-> dir[n]]

\* (cd $temp_dir && sha256sum --ignore-missing --check "$file_stem".sha256) (line 64)
InsCheck ==
    /\ ins_pc \in {"check1", "check2"}
    /\ ins_checked' = ins_checked \cup {BinOf(ins_pc)}
    /\ IF Sha256sumCheck(ArchivesIn(ins_temp), ins_temp[Sha256(BinOf(ins_pc))])
       THEN /\ ins_pc' = (IF ins_pc = "check1" THEN "tar1" ELSE "tar2")
            /\ UNCHANGED <<ins_temp, ins_temp_exists, ins_trap, ins_rm, ins_exit>>
       ELSE InsExit(1)
    /\ UNCHANGED <<ins_cleanup_defined, ins_dest>>
    /\ InsFrame

\* tar --extract --file "$temp_dir/$file_stem.tar.gz" --directory "$dest" (line 66);
\* after the second archive the script ends
InsTar ==
    /\ ins_pc \in {"tar1", "tar2"}
    /\ ins_dest' = ins_dest \cup {[bin |-> BinOf(ins_pc), content |-> ins_temp[TarGz(BinOf(ins_pc))]]}
    /\ IF ins_pc = "tar1"
       THEN /\ ins_pc' = "check2"
            /\ UNCHANGED <<ins_temp, ins_temp_exists, ins_trap, ins_rm, ins_exit>>
       ELSE InsExit(0)
    /\ UNCHANGED <<ins_cleanup_defined, ins_checked>>
    /\ InsFrame

InstallNext ==
    \/ InsRegisterTrap \/ InsMktemp \/ InsDefineCleanup \/ InsCurl \/ InsCommandFails
    \/ InsCheck \/ InsTar

SpecInstall == InstallInit /\ [][InstallNext]_vars

----------------------------------------------------------------------------
(* Claims about install.sh *)

\* the checksum file of the binary names its archive with the hash the
\* downloaded archive has
HashMatches(bin) ==
    \E i \in DOMAIN ins_served[bin].sha :
        /\ ins_served[bin].sha[i].name = TarGz(bin)
        /\ ins_served[bin].sha[i].hash = HashSum(ins_served[bin].archive)

\* C22: install.sh extracts an archive only after its sha256 check against the
\* downloaded checksum file succeeded; when the check fails the script exits
\* non-zero without extracting that archive and its temporary directory is removed
C22_ExtractOnlyAfterCheck ==
    /\ \A e \in ins_dest : e.bin \in ins_checked /\ HashMatches(e.bin)
    /\ \A b \in ins_checked :
          ~HashMatches(b)
            => /\ ins_pc = "done" /\ ins_exit > 0
               /\ \A e \in ins_dest : e.bin # b
               /\ ~ins_temp_exists

\* the check of an archive failed and the script is over
C22_Witness ==
    /\ ins_pc = "done"
    /\ \E b \in ins_checked : ~HashMatches(b)
    /\ ins_dest # {}

----------------------------------------------------------------------------
(* ci.yml: the tag filter of the release-on-tag workflow *)

\* the words of a text, as `for tag in $tags` and `git push ... $tags` split it
RECURSIVE Words(_)
Words(s) ==
    IF s = <<>> THEN <<>>
    ELSE IF s[1] = " " THEN Words(Tail(s))
    ELSE LET e == FirstIndex(s, " ")
         IN  <<SubSeq(s, 1, e - 1)>> \o Words(Tail0(s, e))

\* the filter with two numbers only: v[0-9]+.[0-9]+*
FilterMatch_two_numbers(tag) ==
    LET e1 == RunEnd(tag, 2, Digit)
        e2 == RunEnd(tag, e1 + 1, Digit)
    IN  /\ tag # <<>> /\ tag[1] = "v"
        /\ e1 > 2 /\ e1 <= Len(tag) /\ tag[e1] = "."
        /\ e2 > e1 + 1
        /\ ~Contains(Tail0(tag, e2), "/")

\* tags: ['v[0-9]+.[0-9]+.[0-9]+*'] on the whole name of the tag: in a filter
\* pattern + repeats what precedes it once or more, * stands for any characters
\* but /, and every other character stands for itself
FilterMatch(tag) ==
    LET e1 == RunEnd(tag, 2, Digit)
        e2 == RunEnd(tag, e1 + 1, Digit)
        e3 == RunEnd(tag, e2 + 1, Digit)
    IN  /\ tag # <<>> /\ tag[1] = "v"
        /\ e1 > 2 /\ e1 <= Len(tag) /\ tag[e1] = "."
        /\ e2 > e1 + 1 /\ e2 <= Len(tag) /\ tag[e2] = "."
        /\ e3 > e2 + 1
        /\ ~Contains(Tail0(tag, e3), "/")

\* C27: among the tags get-git-tags prints for a version V exactly one, the
\* full tag vV, matches the filter of the release-on-tag workflow; the sliding
\* tags v{major} and v{major}.{minor} never match it
C27_OnlyFullTagTriggers ==
    ToolDone("get-git-tags")
        => LET tags == Words(stdout)
           IN  /\ tags # <<>>
               /\ tags[1] = <<"v">> \o version
               /\ FilterMatch(tags[1])
               /\ \A i \in 2..Len(tags) : ~FilterMatch(tags[i])

\* the tags of a release without a suffix were printed
C27_Witness ==
    /\ ToolDone("get-git-tags")
    /\ semver.suffix = <<>>
    /\ Len(Words(stdout)) = 3

----------------------------------------------------------------------------
(* The test and the working tree it is started in *)

\* C21: the snapshot test rewrites versions in its temporary copy only: after a
\* run in verify mode every file of the working tree it was started in is as
\* before, and after a run in update mode no file but the snapshot file differs
C21_OriginalTreeUntouched ==
    /\ DOMAIN repo = DOMAIN repo0
    /\ \A p \in DOMAIN repo : p # SnapshotPath => repo[p] = repo0[p]
    /\ ~UPDATE_SNAP => repo = repo0

\* a run in update mode ended after it rewrote its copy and the snapshot file
C21_Witness ==
    /\ test_pc = "done" /\ test_exit = 0 /\ UPDATE_SNAP
    /\ actual # <<>>
    /\ repo[SnapshotPath] # repo0[SnapshotPath]

----------------------------------------------------------------------------
(* release.yml: the release workflow *)

MaxPushes == 1      \* pushes of other actors to the branch while the workflow runs

\* $(script) in `echo "name=$(script)" >> $GITHUB_ENV`: the output of the script
\* without its last newline; the status of the script is lost, echo succeeds
Captured(r) ==
    IF r.out # <<>> /\ r.out[Len(r.out)] = "\n" THEN SubSeq(r.out, 1, Len(r.out) - 1)
    ELSE r.out

KwCommit == <<"-", "-", "c", "o", "m", "m", "i", "t">>

\* the option loop of set-version.sh (lines 17-29) on the words that are left
RECURSIVE Options(_, _)
Options(rest, msg) ==
    IF rest = <<>> THEN [code |-> 0, commit |-> msg]
    ELSE IF rest[1] = KwCommit
    THEN IF Len(rest) >= 2 THEN Options(Tail(Tail(rest)), rest[2])
         ELSE [code |-> 1, commit |-> msg]
    ELSE [code |-> die, commit |-> msg]

\* The end of set-version.sh (lines 83-93) after the options opts were read and
\* the files of the tree t were rewritten to r: nothing is rewritten when the
\* options ended the script, and git commit --all fails when r is the tree of
\* the last commit
GitCommitAll(opts, t, r, head) ==
    IF opts.code # 0 THEN [code |-> opts.code, tree |-> t, commit |-> <<>>]
    ELSE IF opts.commit = <<>> THEN [code |-> 0, tree |-> r, commit |-> <<>>]
    ELSE IF r = head THEN [code |-> 1, tree |-> r, commit |-> <<>>]
    ELSE [code |-> 0, tree |-> r, commit |-> opts.commit]

\* set-version.sh with the command line argv in the working tree t of a clone
\* whose last commit holds the tree head: `set -u` ends it when there is no
\* "$1", die when an option is unknown, and git commit --all when nothing changed
set_version_sh(argv, t, head) ==
    IF argv = <<>> THEN [code |-> 1, tree |-> t, commit |-> <<>>]
    ELSE GitCommitAll(Options(Tail(argv), <<>>), t, set_version(t, argv[1]), head)

\* for tag in $tags; do git tag $tag; done  under bash -e: git tag fails when
\* the clone has the tag already
RECURSIVE TagLoop(_, _, _)
TagLoop(names, have, at) ==
    IF names = <<>> THEN [code |-> 0, tags |-> have]
    ELSE IF \E t \in have : t.name = names[1] THEN [code |-> 128, tags |-> have]
    ELSE TagLoop(Tail(names), have \cup {[name |-> names[1], commit |-> at]}, at)

\* git push --force: the refs of the remote become the pushed ones
ForcePushTags(remote, local, names) ==
    { t \in remote : \A i \in DOMAIN names : t.name # names[i] }
        \cup { t \in local : \E i \in DOMAIN names : t.name = names[i] }

\* how a file of the repository writes a version
Templates == {"quoted", "minor", "major", "url"}

Written(tpl, v) ==
    CASE tpl = "quoted" -> Quoted(v)
      [] tpl = "minor" -> <<"@", "v">> \o CutMajorMinor(v)
      [] tpl = "major" -> <<"@", "v">> \o CutMajor(v)
      [] tpl = "url" -> <<"/", "v">> \o v \o <<"/", "i", "n", "s", "t", "a", "l", "l", ".", "s", "h">>

\* the branch before a release: the manifest and the dev region of the README
\* hold the development version d, the unstable and stable regions the last release r
RelTree(tpl, d, r) ==
    [p \in {"Cargo.lock", "Cargo.toml", "README.md"} |->
        CASE p = "Cargo.lock" -> <<Quoted(d)>>
          [] p = "Cargo.toml" -> SvFile("dev", Quoted(d))
          [] p = "README.md" ->
                SvFile("dev", Written(tpl, d)) \o SvFile("unstable", Written(tpl, r))
                    \o SvFile("stable", Written(tpl, r))]

OldDevVersions ==
    { <<"1", ".", "4", ".", "0", "-", "d", "e", "v">>,
      <<"0", ".", "1", "0", ".", "0", "-", "d", "e", "v">> }

OldRelease == <<"1", ".", "3", ".", "2">>

\* the first version heading of CHANGELOG.md: a release, a release with minor
\* 0, a pre-release
ReleaseVersions ==
    { [major |-> 1, minor |-> 4, patch |-> 2, suffix |-> <<>>],
      [major |-> 1, minor |-> 0, patch |-> 0, suffix |-> <<>>],
      [major |-> 0, minor |-> 10, patch |-> 2, suffix |-> <<"-", "r", "c">>] }

Commit(id, n, after, t) == [id |-> id, n |-> n, after_checkout |-> after, tree |-> t]

\* the job is started (workflow_dispatch)
RelInit ==
    /\ \/ /\ rel_semver \in ReleaseVersions
          /\ rel_changelog = RenderAll(<< [kind |-> "title"], [kind |-> "unreleased"],
                                          [kind |-> "version", ver |-> rel_semver],
                                          [kind |-> "version", ver |->
                                              [major |-> 1, minor |-> 3, patch |-> 2, suffix |-> <<>>]] >>)
       \/ /\ rel_semver = NoSemver
          /\ rel_changelog = RenderAll(<< [kind |-> "title"], [kind |-> "unreleased"] >>)
    /\ rel_template \in Templates
    /\ \E d \in OldDevVersions :
          origin_branch = << Commit("base", 0, FALSE, RelTree(rel_template, d, OldRelease)) >>
    /\ origin_tags = { [name |-> <<"v", "1">>, commit |-> "old"],
                       [name |-> <<"v", "1", ".", "3">>, commit |-> "old"],
                       [name |-> <<"v", "1", ".", "3", ".", "2">>, commit |-> "old"] }
    /\ env_release_version = <<>> /\ env_next_dev_version = <<>> /\ env_tags = <<>>
    /\ rel_tree = <<>> /\ rel_branch = <<>> /\ rel_tags = {}
    /\ others = {}
    /\ rel_status = "running" /\ rel_pc = "checkout"
    /\ ScriptsIdle /\ BackoffIdle /\ InstallIdle /\ RaceIdle

\* what no step of the job changes
RelFrame ==
    UNCHANGED <<rel_changelog, rel_semver, rel_template, others,
                toolVars, libVars, svVars, testVars, backoffVars, installVars,
                   raceVars>>

\* a step fails: the job ends, the later steps are skipped
JobFails == rel_status' = "failure" /\ rel_pc' = "done"

\* the steps that write nothing but $GITHUB_ENV leave these alone
RelClone == UNCHANGED <<rel_tree, rel_branch, rel_tags, origin_branch, origin_tags>>

\* actions/checkout@v4 (lines 23-29): the branch as the remote has it, no tags
Checkout ==
    /\ rel_pc = "checkout"
    /\ rel_branch' = origin_branch
    /\ rel_tree' = origin_branch[Len(origin_branch)].tree
    /\ rel_tags' = {}
    /\ rel_pc' = "release_version"
    /\ UNCHANGED <<env_release_version, env_next_dev_version, env_tags, origin_branch,
                   origin_tags, rel_status>>
    /\ RelFrame

\* Resolve the release version (lines 31-32)
ResolveReleaseVersion ==
    /\ rel_pc = "release_version"
    /\ env_release_version' = Captured(GetVersionFromChangelog(rel_changelog))
    /\ rel_pc' = "next_dev_version"
    /\ UNCHANGED <<env_next_dev_version, env_tags, rel_status>>
    /\ RelClone /\ RelFrame

\* Resolve the next dev version (lines 33-34): without a word in
\* ${{ env.release_version }} "$1" is unbound and the script prints nothing
ResolveNextDevVersion ==
    /\ rel_pc = "next_dev_version"
    /\ LET w == Words(env_release_version)
       IN  env_next_dev_version' =
               IF w = <<>> THEN <<>> ELSE Captured(GetNextDevVersion(w[1]))
    /\ rel_pc' = "tags"
    /\ UNCHANGED <<env_release_version, env_tags, rel_status>>
    /\ RelClone /\ RelFrame

\* Resolve the git tags (lines 35-36)
ResolveTags ==
    /\ rel_pc = "tags"
    /\ LET w == Words(env_release_version)
       IN  env_tags' = IF w = <<>> THEN <<>> ELSE Captured(GetGitTags(w[1]))
    /\ rel_pc' = "config"
    /\ UNCHANGED <<env_release_version, env_next_dev_version, rel_status>>
    /\ RelClone /\ RelFrame

\* git config user.name, user.email (lines 40-42)
GitConfig ==
    /\ rel_pc = "config"
    /\ rel_pc' = "release"
    /\ UNCHANGED <<env_release_version, env_next_dev_version, env_tags, rel_status>>
    /\ RelClone /\ RelFrame

MsgRelease == <<"R", "e", "l", "e", "a", "s", "e", " ", "v">>
MsgDevelopment == <<"D", "e", "v", "e", "l", "o", "p", "m", "e", "n", "t", " ", "v">>

\* scripts/release/set-version.sh ${{ env.x }} --commit "... v${{ env.x }}" as a
\* step: the commit id is added to the branch of the clone, or the job fails
\* the next step runs although set-version.sh failed
Committed_continue_on_error(r, id, next) ==
    /\ rel_tree' = r.tree
    /\ rel_branch' = IF r.code = 0 THEN Append(rel_branch, Commit(id, 0, FALSE, r.tree))
                     ELSE rel_branch
    /\ rel_pc' = next
    /\ UNCHANGED <<env_release_version, env_next_dev_version, env_tags, rel_tags,
                   origin_branch, origin_tags, rel_status>>
    /\ RelFrame

Committed(r, id, next) ==
    /\ rel_tree' = r.tree
    /\ IF r.code = 0
       THEN /\ rel_branch' = Append(rel_branch, Commit(id, 0, FALSE, r.tree))
            /\ rel_pc' = next
            /\ UNCHANGED rel_status
       ELSE JobFails /\ UNCHANGED rel_branch
    /\ UNCHANGED <<env_release_version, env_next_dev_version, env_tags, rel_tags,
                   origin_branch, origin_tags>>
    /\ RelFrame

CommitStep(v, msg, id, next) ==
    Committed(set_version_sh(Words(v) \o <<KwCommit, msg \o v>>, rel_tree,
                             rel_branch[Len(rel_branch)].tree), id, next)

\* Create a release commit (lines 45-46)
ReleaseCommit ==
    /\ rel_pc = "release"
    /\ CommitStep(env_release_version, MsgRelease, "release", "tag")

\* the tag step (lines 48-51)
GitTag ==
    /\ rel_pc = "tag"
    /\ LET r == TagLoop(Words(env_tags), rel_tags, rel_branch[Len(rel_branch)].id)
       IN  /\ rel_tags' = r.tags
           /\ IF r.code = 0 THEN rel_pc' = "dev" /\ UNCHANGED rel_status ELSE JobFails
    /\ UNCHANGED <<env_release_version, env_next_dev_version, env_tags, rel_tree, rel_branch,
                   origin_branch, origin_tags>>
    /\ RelFrame

\* Create a next dev version commit (lines 54-55)
DevCommit ==
    /\ rel_pc = "dev"
    /\ CommitStep(env_next_dev_version, MsgDevelopment, "dev", "push")

\* git push --force --atomic origin ${{ github.ref_name }} ${{ env.tags }} (line 62):
\* the branch and the tags of the remote become the ones of the clone
Push ==
    /\ rel_pc = "push"
    /\ IF \A i \in DOMAIN Words(env_tags) : \E t \in rel_tags : t.name = Words(env_tags)[i]
       THEN /\ origin_branch' = rel_branch
            /\ origin_tags' = ForcePushTags(origin_tags, rel_tags, Words(env_tags))
            /\ rel_status' = "success" /\ rel_pc' = "done"
       ELSE JobFails /\ UNCHANGED <<origin_branch, origin_tags>>
    /\ UNCHANGED <<env_release_version, env_next_dev_version, env_tags, rel_tree, rel_branch,
                   rel_tags>>
    /\ RelFrame

\* a step fails for a reason outside the job: no network at checkout, a push
\* the remote rejects (--atomic: no ref is updated)
StepFails ==
    /\ rel_pc \in {"checkout", "push"}
    /\ JobFails
    /\ UNCHANGED <<env_release_version, env_next_dev_version, env_tags>>
    /\ RelClone /\ RelFrame

\* cargo update fails in set-version.sh: the files are rewritten, there is no commit
CargoFails ==
    /\ rel_pc \in {"release", "dev"}
    /\ LET v == Words(IF rel_pc = "release" THEN env_release_version ELSE env_next_dev_version)
       IN  /\ v # <<>>
           /\ rel_tree' = [set_version(rel_tree, v[1]) EXCEPT !["Cargo.lock"] = rel_tree["Cargo.lock"]]
    /\ JobFails
    /\ UNCHANGED <<env_release_version, env_next_dev_version, env_tags, rel_branch, rel_tags,
                   origin_branch, origin_tags>>
    /\ RelFrame

\* another actor pushes a commit to the branch
OtherPush ==
    /\ rel_pc # "idle"
    /\ Cardinality(others) < MaxPushes
    /\ LET c == Commit("other", Cardinality(others) + 1, rel_pc # "checkout",
                       origin_branch[Len(origin_branch)].tree)
       IN  /\ origin_branch' = Append(origin_branch, c)
           /\ others' = others \cup {c}
    /\ UNCHANGED <<rel_changelog, rel_semver, rel_template, env_release_version,
                   env_next_dev_version, env_tags, rel_tree, rel_branch, rel_tags,
                   origin_tags, rel_status, rel_pc,
                   toolVars, libVars, svVars, testVars, backoffVars, installVars,
                   raceVars>>

ReleaseNext ==
    \/ Checkout \/ ResolveReleaseVersion \/ ResolveNextDevVersion \/ ResolveTags \/ GitConfig
    \/ ReleaseCommit \/ GitTag \/ DevCommit \/ Push
    \/ StepFails \/ CargoFails \/ OtherPush

SpecRelease == RelInit /\ [][ReleaseNext]_vars


-----------------------------------------------------------------------------
(* release.yml: the order of the commits, the tags and the push *)

HasCommit(b, id) == \E i \in DOMAIN b : b[i].id = id

Before(b, x, y) == \E i, j \in DOMAIN b : i < j /\ b[i].id = x /\ b[j].id = y

\* every tag of the tags step is in the clone
AllTagged == \A i \in DOMAIN Words(env_tags) : \E t \in rel_tags : t.name = Words(env_tags)[i]

\* the tags of a version: v{semver}, and v{major} and v{major}.{minor} when it has no suffix
TagNames(v) ==
    {<<"v">> \o VersionText(v)}
        \cup IF v.suffix = <<>>
             THEN {<<"v">> \o FormatNat(v.major),
                   <<"v">> \o FormatNat(v.major) \o <<".">> \o FormatNat(v.minor)}
             ELSE {}

\* the job wrote to the remote
Pushed ==
    \/ rel_status = "success"
    \/ HasCommit(origin_branch, "release") \/ HasCommit(origin_branch, "dev")
    \/ \E t \in origin_tags : t.commit # "old"

\* C23: the tags are created after the release commit and before the development
\* commit, so every tag points at the release commit and none at the development
\* commit, the tags are v{semver} and, for a version without suffix, the sliding
\* ones, and the remote is written only after both commits and all the tags exist
C23_TagsBetweenCommits ==
    /\ \A t \in rel_tags : t.commit = "release" /\ HasCommit(rel_branch, "release")
    /\ \A t \in origin_tags : t.commit \in {"old", "release"}
    /\ HasCommit(rel_branch, "dev") =>
          /\ Before(rel_branch, "release", "dev")
          /\ AllTagged
          /\ { t.name : t \in rel_tags } = TagNames(rel_semver)
    /\ Pushed =>
          /\ rel_pc = "done"
          /\ Before(rel_branch, "release", "dev")
          /\ AllTagged
          /\ { t.name : t \in rel_tags } = TagNames(rel_semver)
          /\ \A n \in TagNames(rel_semver) : [name |-> n, commit |-> "release"] \in origin_tags

\* a release of a version without suffix was pushed with its three tags
C23_Witness ==
    /\ rel_status = "success"
    /\ Before(origin_branch, "release", "dev")
    /\ Cardinality({ t \in origin_tags : t.commit = "release" }) = 3

-----------------------------------------------------------------------------
(* release.yml: the push and the commits of other actors *)

\* C26: the push has force-with-lease semantics: a commit that another actor
\* pushed to the branch after the checkout of the job is never discarded
C26_PushKeepsOtherCommits ==
    \A c \in others : c.after_checkout => \E i \in DOMAIN origin_branch : origin_branch[i] = c

-----------------------------------------------------------------------------
(* release.yml: the regions after the two runs of set-version.sh *)

\* the tree of the commit id of the clone
TreeOf(id) == rel_branch[CHOOSE i \in DOMAIN rel_branch : rel_branch[i].id = id].tree

\* X.(Y+1).0-dev
NextDev(v) ==
    FormatNat(v.major) \o <<".">> \o FormatNat(v.minor + 1) \o <<".", "0", "-", "d", "e", "v">>

\* C30: after the runs of set-version.sh with a release version V = X.Y.Z without
\* suffix and with the next development version, the dev regions hold X.(Y+1).0-dev,
\* the unstable and stable regions V, each in the form its line writes a version
\* in (in full, or cut to major.minor or major); the second run, whether or not it
\* ends with a commit, leaves every unstable and stable region as the release
\* commit has it
C30_RegionsAfterRelease ==
    /\ HasCommit(rel_branch, "dev") /\ rel_semver.suffix = <<>> =>
          /\ rel_tree["Cargo.toml"][2] = Quoted(NextDev(rel_semver))
          /\ rel_tree["README.md"][2] = Written(rel_template, NextDev(rel_semver))
          /\ rel_tree["README.md"][5] = Written(rel_template, VersionText(rel_semver))
          /\ rel_tree["README.md"][8] = Written(rel_template, VersionText(rel_semver))
          /\ TreeOf("dev") = rel_tree
    /\ HasCommit(rel_branch, "release") =>
          /\ rel_tree["README.md"][5] = TreeOf("release")["README.md"][5]
          /\ rel_tree["README.md"][8] = TreeOf("release")["README.md"][8]

\* both runs were made for a version without suffix, and the dev regions changed
C30_Witness ==
    /\ HasCommit(rel_branch, "dev") /\ rel_semver.suffix = <<>>
    /\ rel_tree["README.md"][2] # TreeOf("release")["README.md"][2]
    /\ rel_tree["README.md"][5] # TreeOf("base")["README.md"][5]

-----------------------------------------------------------------------------
(* set-version.sh: two runs in one working tree *)

\* the versions of the two runs: a release, a development version, a pre-release
RaceVersions ==
    { <<"2", ".", "0", ".", "0">>,
      <<"3", ".", "1", ".", "0", "-", "d", "e", "v">>,
      <<"3", ".", "1", ".", "0", "-", "r", "c", ".", "1">> }

RaceRuns == {1, 2}

\* the call of replace that follows the call for the region class c of the file
\* number i (lines 66-81): <<file number, class>>
RaceAfter(v, i, c) ==
    CASE c = "dev" ->
            IF UnstableGate(v) THEN <<i, "unstable">>
            ELSE IF StableGate(v) THEN <<i, "stable">> ELSE <<i + 1, "dev">>
      [] c = "unstable" -> IF StableGate(v) THEN <<i, "stable">> ELSE <<i + 1, "dev">>
      [] c = "stable" -> <<i + 1, "dev">>

\* both scripts are started in a tree that holds the development version d
RaceInit ==
    /\ \E d \in OldDevVersions, tpl \in {"quoted", "minor"} :
          race_tree = RelTree(tpl, d, OldRelease)
    /\ \E v1, v2 \in RaceVersions :
          /\ v1 # v2
          /\ race_runs = [k \in RaceRuns |->
                            [new_version |-> IF k = 1 THEN v1 ELSE v2, files |-> <<>>,
                             idx |-> 0, class |-> "", temp |-> <<>>, pc |-> "find"]]
    /\ ScriptsIdle /\ BackoffIdle /\ InstallIdle /\ ReleaseIdle

RaceFrame == UNCHANGED <<toolVars, libVars, svVars, testVars, backoffVars, installVars, releaseVars>>

\* files=($(find . -type f ...)) of the run k (lines 56-64)
RaceFind(k) ==
    /\ race_runs[k].pc = "find"
    /\ \E o \in Orders(Found(race_tree)) :
          race_runs' = [race_runs EXCEPT ![k].files = o, ![k].idx = 1, ![k].class = "dev",
                                         ![k].pc = "sed"]
    /\ UNCHANGED race_tree
    /\ RaceFrame

\* sed --in-place of the run k reads the file and writes the result to a
\* temporary file next to it (line 46)
RaceSed(k) ==
    /\ race_runs[k].pc = "sed"
    /\ race_runs' = [race_runs EXCEPT
                        ![k].temp = replace(race_tree[race_runs[k].files[race_runs[k].idx]],
                                            ClassTag(race_runs[k].class),
                                            race_runs[k].new_version),
                        ![k].pc = "rename"]
    /\ UNCHANGED race_tree
    /\ RaceFrame

\* the position of a run after the call of replace for the class c of the file i
RaceAdvance(run, to) ==
    [run EXCEPT !.idx = to[1], !.class = to[2], !.temp = <<>>,
                !.pc = IF to[1] > Len(run.files) THEN "cargo" ELSE "sed"]

\* the temporary file of sed is dropped and the file keeps what it held
RaceRename_dropped(k) ==
    /\ race_runs[k].pc = "rename"
    /\ UNCHANGED race_tree
    /\ race_runs' = [race_runs EXCEPT
                        ![k] = RaceAdvance(@, RaceAfter(@.new_version, @.idx, @.class))]
    /\ RaceFrame

\* sed --in-place of the run k renames its temporary file to the file, and the
\* loop of the run goes on to the next call of replace
RaceRename(k) ==
    /\ race_runs[k].pc = "rename"
    /\ race_tree' = [race_tree EXCEPT ![race_runs[k].files[race_runs[k].idx]] = race_runs[k].temp]
    /\ race_runs' = [race_runs EXCEPT
                        ![k] = RaceAdvance(@, RaceAfter(@.new_version, @.idx, @.class))]
    /\ RaceFrame

\* with_log cargo +stable update --workspace of the run k (line 89)
RaceCargoUpdate(k) ==
    /\ race_runs[k].pc = "cargo"
    /\ race_tree' = [race_tree EXCEPT !["Cargo.lock"] = <<race_tree["Cargo.toml"][2]>>]
    /\ race_runs' = [race_runs EXCEPT ![k].pc = "done"]
    /\ RaceFrame

RaceStep(k) == RaceFind(k) \/ RaceSed(k) \/ RaceRename(k) \/ RaceCargoUpdate(k)

RaceNext == \E k \in RaceRuns : RaceStep(k)

SpecRace == RaceInit /\ [][RaceNext]_vars

RaceDone == \A k \in RaceRuns : race_runs[k].pc = "done"

\* the line of the dev region of a file
DevLine(p) == race_tree[p][2]

\* the line holds the version v in one of the forms a file writes a version in
HoldsVersion(l, v) == \E tpl \in Templates : l = Written(tpl, v)

\* C28: set-version.sh takes no lock on the working tree, the steps of two runs
\* interleave freely; when both runs have ended each dev region holds the version
\* of one of the two runs (the one whose sed renamed the file last), and the lock
\* file the version of one of them, so regions of one class may differ
C28_LastWriterPerFile ==
    RaceDone =>
        /\ \A p \in Found(race_tree) :
              \E k \in RaceRuns : HoldsVersion(DevLine(p), race_runs[k].new_version)
        /\ \E k \in RaceRuns : race_tree["Cargo.lock"] = <<Quoted(race_runs[k].new_version)>>

\* both runs have ended, and the dev region of one file holds the version of the
\* first run while the dev region of the other file holds the version of the second
C28_Witness ==
    /\ RaceDone
    /\ HoldsVersion(DevLine("Cargo.toml"), race_runs[1].new_version)
    /\ HoldsVersion(DevLine("README.md"), race_runs[2].new_version)
    /\ ~HoldsVersion(DevLine("README.md"), race_runs[1].new_version)
====
